---- MODULE Spec2Model ----
(***************************************************************************)
(* A model of the TypeScript plugin for the acorn parser (src/src/index.ts *)
(* and src/src/tokenType.ts).                                              *)
(*                                                                         *)
(* The parser is a synchronous recursive-descent recogniser.  Its state is *)
(* the token cursor and a handful of flags; every method of the plugin is  *)
(* an operator from a parser state to a result (a node and the state the   *)
(* method leaves, or a raised error and the state at the raise).  Actions  *)
(* run one entry point of the plugin to completion on the current input.   *)
(*                                                                         *)
(* The input is modelled at token level: a sequence of tokens, each with   *)
(* its token type, its value and a flag `nl` telling whether a line break  *)
(* separates it from the token before it.  Offsets are token indices.      *)
(***************************************************************************)
EXTENDS Integers, Sequences, FiniteSets, TLC

VARIABLES
    dts,            \* the plugin's option dts
    input,          \* the token sequence being parsed
    pos,            \* index of the current token (this.type/value/start/end/pos)
    lastTokEnd,     \* index of the last token consumed by next() (this.lastTokEnd)
    inType,         \* this.inType
    isAmbientContext,                   \* this.isAmbientContext
    inDisallowConditionalTypesContext,  \* this.inDisallowConditionalTypesContext
    inAbstractClass,                    \* this.inAbstractClass
    stmtLog,        \* isAmbientContext as seen by each host statement parsed so far
    diagnostics,    \* what raiseRecoverable reported so far
    lexer,          \* the tokenizer at character level: the source text and
                    \* the fields nextToken, finishToken and skipSpace write
    pc,             \* "ready", then "probed", "parsed" or "failed"
    steps,          \* how many operations have run
    op,             \* the operation that ran last
    result          \* what it returned: [ok, node, err], or [ans] for a check

vars == <<dts, input, pos, lastTokEnd, inType, isAmbientContext,
          inDisallowConditionalTypesContext, inAbstractClass, stmtLog,
          diagnostics, lexer, pc, steps, op, result>>

-----------------------------------------------------------------------------
(* Tokens *)

Tk(t, v) == [type |-> t, value |-> v, nl |-> FALSE]

\* the same token, first on its line
NL(tok) == [tok EXCEPT !.nl = TRUE]

EOF == Tk("eof", "")

\* tsTokenType: the soft keywords of generateTsKwTokenType, each its own token type
tsTokenType ==
    {"as", "assert", "async", "await", "from", "get", "let", "meta", "of",
     "sent", "set", "static", "yield", "asserts", "checks", "exports",
     "global", "implements", "intrinsic", "infer", "is", "mixins", "proto",
     "require", "keyof", "readonly", "unique", "abstract", "declare", "enum",
     "module", "namespace", "interface", "type", "opaque"}

\* a plain identifier, and a soft keyword (readWord gives it the type tsTokenType[word])
Id(v) == Tk("name", v)
Kw(w) == Tk(w, w)

tokenIsIdentifier(t) == t \in tsTokenType \cup {"name"}

tokenIsTSTypeOperator(t) == t \in {"keyof", "readonly", "unique"}

keywordTypeFromName(value) ==
    CASE value = "any" -> "TSAnyKeyword"
      [] value = "boolean" -> "TSBooleanKeyword"
      [] value = "bigint" -> "TSBigIntKeyword"
      [] value = "never" -> "TSNeverKeyword"
      [] value = "number" -> "TSNumberKeyword"
      [] value = "object" -> "TSObjectKeyword"
      [] value = "string" -> "TSStringKeyword"
      [] value = "symbol" -> "TSSymbolKeyword"
      [] value = "undefined" -> "TSUndefinedKeyword"
      [] value = "unknown" -> "TSUnknownKeyword"
      [] OTHER -> "undefined"

-----------------------------------------------------------------------------
(* Parser state and results *)

\* the parser as constructed, at the first token of inp
NewParser(inp) ==
    [input |-> inp, pos |-> 1, lastTokEnd |-> 0,
     inType |-> FALSE, isAmbientContext |-> FALSE,
     inDisallowConditionalTypesContext |-> FALSE,
     inAbstractClass |-> FALSE,
     stmtLog |-> <<>>, diagnostics |-> <<>>]

NoNode == [type |-> "undefined"]
NoErr == [msg |-> "none", at |-> 0]

Ok(ps, node) == [ok |-> TRUE, ps |-> ps, node |-> node, err |-> NoErr]

\* this.raise(at, msg): the host throws; the parse unwinds to the nearest catch
raise(ps, at, msg) ==
    [ok |-> FALSE, ps |-> ps, node |-> NoNode, err |-> [msg |-> msg, at |-> at]]

TokAt(ps, i) == IF i >= 1 /\ i <= Len(ps.input) THEN ps.input[i] ELSE EOF

Cur(ps) == TokAt(ps, ps.pos)

match(ps, t) == Cur(ps).type = t

\* host next(): lastTokEnd := end of the current token, then read the next token
next(ps) ==
    [ps EXCEPT !.lastTokEnd = ps.pos,
               !.pos = IF ps.pos > Len(ps.input) THEN ps.pos ELSE ps.pos + 1]

\* host eat(t): next() when the current token has type t
eat(ps, t) == IF match(ps, t) THEN next(ps) ELSE ps

\* this.raiseRecoverable(at, msg): the diagnostic is reported and the parse
\* goes on
raiseRecoverable(ps, at, msg) ==
    [ps EXCEPT !.diagnostics = Append(@, [msg |-> msg, at |-> at])]

unexpected(ps) == raise(ps, ps.pos, "Unexpected token")

\* host expect(t): eat(t) || unexpected()
expect(ps, t) == IF match(ps, t) THEN Ok(next(ps), NoNode) ELSE unexpected(ps)

\* a line break between the end of the last consumed token and the current token
hasPrecedingLineBreak(ps) ==
    \E k \in (ps.lastTokEnd + 1)..ps.pos : TokAt(ps, k).nl

\* only white space up to a line break after the current token
hasFollowingLineBreak(ps) == TokAt(ps, ps.pos + 1).nl

\* host canInsertSemicolon()
canInsertSemicolon(ps) ==
    match(ps, "eof") \/ match(ps, "braceR") \/ hasPrecedingLineBreak(ps)

ts_isContextual(ps, t) == Cur(ps).type = t

tsIsIdentifier(ps) == tokenIsIdentifier(Cur(ps).type)

-----------------------------------------------------------------------------
(* Speculation *)

\* the fields a LookaheadState holds.  A parser state at token level has
\* only `pos` of them (type, value, start and end are functions of the token
\* index); the tokenizer state below has them all.
LookaheadStateFields ==
    {"pos", "value", "type", "start", "end", "context", "startLoc",
     "lastTokEndLoc", "curLine", "lineStart"}

getCurLookaheadState(ps) ==
    [f \in LookaheadStateFields \cap DOMAIN ps |-> ps[f]]

\* a setLookaheadState that leaves the parser where f left it
setLookaheadStateSkipped(ps, state) == ps

setLookaheadState(ps, state) ==
    [f \in DOMAIN ps |-> IF f \in DOMAIN state THEN state[f] ELSE ps[f]]

\* tsLookAhead(f): run f, reinstall the snapshot, return f's answer.  The
\* answers of the speculative checks are booleans: r.ans.
tsLookAheadRestore(ps, after) ==
    setLookaheadState(after, getCurLookaheadState(ps))

-----------------------------------------------------------------------------
(* The tokenizer.  The source text is a sequence of characters and offsets  *)
(* count from 0, as in the source.  The host's readers are given for the    *)
(* characters the texts below are made of.  A raise is kept in `err`.       *)
(* this.context is a reference to an array: `arrays` holds the arrays made  *)
(* so far and `context` is the index of the one this.context refers to, so  *)
(* that a push or a pop is seen through every reference to the array.       *)

\* the tokenizer as the host constructs it: before the first token
NewTokenizer(text, locations, onComment, context) ==
    [text |-> text, locations |-> locations, onComment |-> onComment,
     pos |-> 0, type |-> "eof", value |-> <<>>, start |-> 0, end |-> 0,
     startLoc |-> [line |-> 1, column |-> 0],
     endLoc |-> [line |-> 1, column |-> 0],
     lastTokStart |-> 0, lastTokEnd |-> 0,
     lastTokStartLoc |-> [line |-> 1, column |-> 0],
     lastTokEndLoc |-> [line |-> 1, column |-> 0],
     curLine |-> 1, lineStart |-> 0, context |-> 1, arrays |-> <<context>>,
     isLookahead |-> FALSE, comments |-> <<>>, contextUpdates |-> 0,
     err |-> NoErr]

CharAt(lx, p) == IF p >= 0 /\ p < Len(lx.text) THEN lx.text[p + 1] ELSE "eof"

isNewLine(ch) == ch = "\n"

isIdentifierStart(ch) == ch = "a"

curPosition(lx) == [line |-> lx.curLine, column |-> lx.pos - lx.lineStart]

\* the frames of the array this.context refers to
ContextStack(lx) == lx.arrays[lx.context]

curContext(lx) == ContextStack(lx)[Len(ContextStack(lx))]

\* this.context = [frames]: a new array
NewContext(lx, frames) ==
    [lx EXCEPT !.arrays = Append(@, frames), !.context = Len(lx.arrays) + 1]

\* the arrays made after the first `live` ones are no longer referred to
Collect(lx, live) == [lx EXCEPT !.arrays = SubSeq(@, 1, live)]

raiseInTokenizer(lx, at, msg) == [lx EXCEPT !.err = [msg |-> msg, at |-> at]]

\* options.onComment(block, text, start, end, startLoc, endLoc)
onComment(lx, block, start, startLoc) ==
    IF lx.onComment
    THEN [lx EXCEPT !.comments =
             Append(@, [block |-> block, start |-> start, end |-> lx.pos,
                        startLoc |-> startLoc, endLoc |-> curPosition(lx)])]
    ELSE lx

\* the while loop of skipLineComment: the next line break or the end
RECURSIVE LineEnd(_, _)
LineEnd(lx, p) ==
    IF p < Len(lx.text) /\ ~isNewLine(CharAt(lx, p)) THEN LineEnd(lx, p + 1)
    ELSE p

skipLineComment(lx, startSkip) ==
    LET with_moved(moved) ==
        IF lx.isLookahead THEN moved
        ELSE onComment(moved, FALSE, lx.pos, curPosition(lx))
    IN with_moved([lx EXCEPT !.pos = LineEnd(lx, lx.pos + startSkip)])

\* input.indexOf('*/', from), or -1
RECURSIVE IndexOfCommentEnd(_, _)
IndexOfCommentEnd(lx, from) ==
    IF from + 1 >= Len(lx.text) THEN -1
    ELSE IF CharAt(lx, from) = "*" /\ CharAt(lx, from + 1) = "/" THEN from
    ELSE IndexOfCommentEnd(lx, from + 1)

\* the line breaks of the text in [from, to), as offsets just after them
LineBreaksIn(lx, from, to) ==
    {p + 1 : p \in {q \in from..(to - 1) : isNewLine(CharAt(lx, q))}}

Greatest(S) == CHOOSE i \in S : \A j \in S : j <= i

skipBlockComment(lx) ==
    LET with_end(end_) ==
        IF end_ = -1
        THEN raiseInTokenizer([lx EXCEPT !.pos = lx.pos + 2], lx.pos,
                              "Unterminated comment")
        ELSE LET with_breaks(breaks) ==
                 LET with_moved(moved) ==
                     IF lx.isLookahead THEN moved
                     ELSE onComment(moved, TRUE, lx.pos, curPosition(lx))
                 IN with_moved(
                        IF lx.locations /\ breaks # {}
                        THEN [lx EXCEPT !.pos = end_ + 2,
                                        !.curLine = @ + Cardinality(breaks),
                                        !.lineStart = Greatest(breaks)]
                        ELSE [lx EXCEPT !.pos = end_ + 2])
             IN with_breaks(LineBreaksIn(lx, lx.pos, end_ + 2))
    IN with_end(IndexOfCommentEnd(lx, lx.pos + 2))

\* host skipSpace(): white space, line breaks and comments
RECURSIVE skipSpace(_)
skipSpace(lx) ==
    IF lx.err # NoErr \/ lx.pos >= Len(lx.text) THEN lx
    ELSE CASE CharAt(lx, lx.pos) = " " -> skipSpace([lx EXCEPT !.pos = @ + 1])
           [] CharAt(lx, lx.pos) = "\n" ->
                skipSpace(IF lx.locations
                          THEN [lx EXCEPT !.pos = @ + 1, !.curLine = @ + 1,
                                          !.lineStart = lx.pos + 1]
                          ELSE [lx EXCEPT !.pos = @ + 1])
           [] CharAt(lx, lx.pos) = "/" /\ CharAt(lx, lx.pos + 1) = "*" ->
                skipSpace(skipBlockComment(lx))
           [] CharAt(lx, lx.pos) = "/" /\ CharAt(lx, lx.pos + 1) = "/" ->
                skipSpace(skipLineComment(lx, 2))
           [] OTHER -> lx

\* host updateContext(prevType) of the token just read: `(` pushes a
\* context onto this.context and `)` pops one, in place; the other tokens
\* read here change no context; the run is counted
updateContext(lx, prevType) ==
    LET counted == [lx EXCEPT !.contextUpdates = @ + 1]
        stack == ContextStack(lx)
        popped == SubSeq(stack, 1, Len(stack) - 1)
    IN CASE lx.type = "parenL" ->
                [counted EXCEPT !.arrays[lx.context] =
                    Append(@, IF prevType \in {"_if", "_for", "_with", "_while"}
                              THEN "p_stat" ELSE "p_expr")]
         [] lx.type = "parenR" /\ Len(stack) > 1 ->
                [counted EXCEPT !.arrays[lx.context] =
                    IF /\ stack[Len(stack)] = "b_stat"
                       /\ popped[Len(popped)] \in {"f_stat", "f_expr"}
                    THEN SubSeq(popped, 1, Len(popped) - 1)
                    ELSE popped]
         [] OTHER -> counted

finishToken(lx, type, val) ==
    LET with_set(set) ==
        IF ~lx.isLookahead THEN updateContext(set, lx.type) ELSE set
    IN with_set([lx EXCEPT !.end = lx.pos,
                           !.endLoc = IF lx.locations THEN curPosition(lx) ELSE @,
                           !.type = type, !.value = val])

\* host finishOp(type, size)
finishOp(lx, type, size) ==
    finishToken([lx EXCEPT !.pos = @ + size], type,
                SubSeq(lx.text, lx.pos + 1, lx.pos + size))

\* host readWord1(): the identifier characters from pos on
RECURSIVE WordEnd(_, _)
WordEnd(lx, p) == IF isIdentifierStart(CharAt(lx, p)) THEN WordEnd(lx, p + 1) ELSE p

readWord(lx) ==
    finishToken([lx EXCEPT !.pos = WordEnd(lx, lx.pos)], "name",
                SubSeq(lx.text, lx.pos + 1, WordEnd(lx, lx.pos)))

\* host readToken_lt_gt(code): shifts, their assignments, `<=` and `>=`
readToken_lt_gt(lx, code) ==
    LET with_size(size) ==
        IF CharAt(lx, lx.pos + 1) = code
        THEN IF CharAt(lx, lx.pos + size) = "="
             THEN finishOp(lx, "assign", size + 1)
             ELSE finishOp(lx, "bitShift", size)
        ELSE finishOp(lx, "relational",
                      IF CharAt(lx, lx.pos + 1) = "=" THEN 2 ELSE 1)
    IN with_size(IF code = ">" /\ CharAt(lx, lx.pos + 2) = ">" THEN 3 ELSE 2)

\* host readToken_eq_excl(code) for `=`
readToken_eq(lx) ==
    IF CharAt(lx, lx.pos + 1) = "="
    THEN finishOp(lx, "equality", IF CharAt(lx, lx.pos + 2) = "=" THEN 3 ELSE 2)
    ELSE IF CharAt(lx, lx.pos + 1) = ">" THEN finishOp(lx, "arrow", 2)
    ELSE finishOp(lx, "eq", 1)

\* the host tokenizer's getTokenFromCode(code)
\* host readToken_mult_modulo_exp(code) for `*`
readToken_mult(lx) ==
    IF CharAt(lx, lx.pos + 1) = "*"
    THEN finishOp(lx, IF CharAt(lx, lx.pos + 2) = "=" THEN "assign" ELSE "starstar",
                  IF CharAt(lx, lx.pos + 2) = "=" THEN 3 ELSE 2)
    ELSE IF CharAt(lx, lx.pos + 1) = "=" THEN finishOp(lx, "assign", 2)
    ELSE finishOp(lx, "star", 1)

\* exprAllowed as the host's updateContext leaves it after a token that
\* changes no frame (type.beforeExpr): false after a word and after a
\* regular expression
exprAllowed(lx) == lx.type \notin {"name", "regexp"}

\* the closing `/` of a regular expression, -1 when the line or the text ends
\* first (the texts hold no `\` and no character class)
RECURSIVE RegexpEnd(_, _)
RegexpEnd(lx, p) ==
    IF p >= Len(lx.text) \/ isNewLine(CharAt(lx, p)) THEN -1
    ELSE IF CharAt(lx, p) = "/" THEN p
    ELSE RegexpEnd(lx, p + 1)

\* host readRegexp(): the pattern up to the closing `/`, then the flags; no
\* identifier character of the texts is a flag
readRegexp(lx) ==
    LET with_end(start, end) ==
        IF end = -1
        THEN raiseInTokenizer(lx, start, "Unterminated regular expression")
        ELSE IF WordEnd(lx, end + 1) > end + 1
        THEN raiseInTokenizer(lx, start, "Invalid regular expression flag")
        ELSE finishToken([lx EXCEPT !.pos = end + 1], "regexp",
                         SubSeq(lx.text, start + 1, end))
    IN with_end(lx.pos + 1, RegexpEnd(lx, lx.pos + 1))

\* host readToken_slash()
readToken_slash(lx) ==
    IF exprAllowed(lx) THEN readRegexp(lx)
    ELSE IF CharAt(lx, lx.pos + 1) = "=" THEN finishOp(lx, "assign", 2)
    ELSE finishOp(lx, "slash", 1)

superGetTokenFromCode(lx, code) ==
    CASE code \in {"<", ">"} -> readToken_lt_gt(lx, code)
      [] code = "=" -> readToken_eq(lx)
      [] code = "(" -> finishOp(lx, "parenL", 1)
      [] code = ")" -> finishOp(lx, "parenR", 1)
      [] code = "*" -> readToken_mult(lx)
      [] code = "/" -> readToken_slash(lx)
      [] OTHER -> raiseInTokenizer(lx, lx.pos, "Unexpected character")

\* every `<` and `>` is the host's answer
getTokenFromCodeOfHost(lx, code) == superGetTokenFromCode(lx, code)

getTokenFromCode(lx, code) ==
    IF lx.inType /\ code = ">" THEN finishOp(lx, "relational", 1)
    ELSE IF lx.inType /\ code = "<" THEN finishOp(lx, "relational", 1)
    ELSE superGetTokenFromCode(lx, code)

\* host readToken(code)
readToken(lx, code) ==
    IF isIdentifierStart(code) THEN readWord(lx) ELSE getTokenFromCode(lx, code)

nextToken(lx) ==
    LET with_skipped(skipped) ==
        IF skipped.err # NoErr THEN skipped
        ELSE LET with_started(started) ==
                 IF started.pos >= Len(started.text)
                 THEN finishToken(started, "eof", <<>>)
                 ELSE readToken(started, CharAt(started, started.pos))
             IN with_started(
                    [skipped EXCEPT !.start = skipped.pos,
                                    !.startLoc =
                                        IF skipped.locations /\ ~skipped.isLookahead
                                        THEN curPosition(skipped) ELSE @])
    IN with_skipped(skipSpace(lx))

\* host next()
nextOfTokenizer(lx) ==
    nextToken([lx EXCEPT !.lastTokEnd = lx.end, !.lastTokStart = lx.start,
                         !.lastTokEndLoc = lx.endLoc,
                         !.lastTokStartLoc = lx.startLoc])

createLookaheadState(lx) ==
    NewContext([lx EXCEPT !.value = <<>>], <<curContext(lx)>>)

\* lookahead(): the state after the peek, and the LookaheadState returned
lookahead(lx) ==
    LET with_peeked(peeked) ==
        IF peeked.err # NoErr THEN [lx |-> peeked, state |-> <<>>]
        ELSE [lx |-> Collect(
                         setLookaheadState([peeked EXCEPT !.isLookahead = FALSE],
                                           getCurLookaheadState(lx)),
                         Len(lx.arrays)),
              state |-> getCurLookaheadState(peeked)]
    IN with_peeked(
           nextToken([createLookaheadState(lx) EXCEPT !.isLookahead = TRUE]))

-----------------------------------------------------------------------------
(* Host productions the plugin delegates to, reduced to what the plugin    *)
(* relies on: identifiers and binding patterns.                            *)

HostKeywordTypes ==
    {"_in", "_extends", "_class", "_function", "_this", "_new", "_const",
     "_var", "_void", "_null", "_typeof", "_import", "_true", "_false",
     "_default"}

\* host parseIdent(liberal), as the plugin relies on it: an identifier token
\* (a soft keyword is one), or a reserved word when liberal
parseIdent(ps, liberal) ==
    IF tokenIsIdentifier(Cur(ps).type)
       \/ (liberal /\ Cur(ps).type \in HostKeywordTypes)
    THEN Ok(next(ps), [type |-> "Identifier", name |-> Cur(ps).value,
                       start |-> ps.pos])
    ELSE unexpected(ps)

\* this.method(args), defined once every method is
RECURSIVE Invoke(_, _)

\* methods called before their definition
RECURSIVE tsParseUnionTypeOrHigher(_)
RECURSIVE tsParseIntersectionTypeOrHigher(_)
RECURSIVE tsParseTypeOperatorOrHigher(_)
RECURSIVE tsParseArrayTypeOrHigher(_)
RECURSIVE tsParseNonArrayType(_)
RECURSIVE tsParseTupleElementType(_)
RECURSIVE tsParseType(_)

\* host parseBindingList(close, true, true) after the opening token: elements
\* separated by commas up to `close`; an element is a hole, `...name`, a name,
\* or a nested array pattern; returns the list of element kinds
parseBindingListFrom(ps, close, acc) ==
    IF match(ps, close) THEN Ok(next(ps), [type |-> "list", elts |-> acc])
    ELSE IF match(ps, "comma") THEN
        Invoke("parseBindingListFrom", <<next(ps), close, Append(acc, "hole")>>)
    ELSE LET with_rest(rest) ==
         LET with_p1(p1) ==
         LET with_elt(elt) ==
             IF ~elt.ok THEN elt
             ELSE LET with_kind(kind) ==
                  LET with_acc2(acc2) ==
                      IF match(elt.ps, close)
                      THEN Ok(next(elt.ps), [type |-> "list", elts |-> acc2])
                      ELSE IF rest THEN
                          raise(elt.ps, elt.ps.pos,
                                "Comma is not permitted after the rest element")
                      ELSE IF match(elt.ps, "comma")
                      THEN Invoke("parseBindingListFrom", <<next(elt.ps), close, acc2>>)
                      ELSE unexpected(elt.ps)
                  IN with_acc2(Append(acc, kind))
                  IN with_kind(IF rest THEN "RestElement" ELSE "Identifier")
         IN with_elt(IF match(p1, "name") THEN Ok(next(p1), NoNode)
                    ELSE IF match(p1, "bracketL")
                    THEN Invoke("parseBindingListFrom", <<next(p1), "bracketR", <<>>>>)
                    ELSE unexpected(p1))
         IN with_p1(IF rest THEN next(ps) ELSE ps)
         IN with_rest(match(ps, "ellipsis"))

\* host parseObj(true) after `{`: shorthand names separated by commas up to `}`
parseObjFrom(ps, first) ==
    IF match(ps, "braceR") THEN Ok(next(ps), [type |-> "ObjectPattern"])
    ELSE LET with_p1(p1) ==
             IF ~p1.ok THEN p1
             ELSE IF match(p1.ps, "braceR")
             THEN Ok(next(p1.ps), [type |-> "ObjectPattern"])
             ELSE IF tokenIsIdentifier(Cur(p1.ps).type)
             THEN Invoke("parseObjFrom", <<next(p1.ps), FALSE>>)
             ELSE unexpected(p1.ps)
         IN with_p1(IF first THEN Ok(ps, NoNode) ELSE expect(ps, "comma"))

\* host parseObj(isPattern): consumes `{` itself
parseObj(ps) == parseObjFrom(next(ps), TRUE)

-----------------------------------------------------------------------------
(* Function type or parenthesized type *)

\* the answer of a speculative check and the state it leaves
Ans(ps, b) == [ans |-> b, ps |-> ps]

tsSkipParameterStart(ps) ==
    IF tokenIsIdentifier(Cur(ps).type) \/ match(ps, "_this")
    THEN Ans(next(ps), TRUE)
    ELSE IF match(ps, "braceL")
    THEN LET with_r(r) ==
                                                Ans(r.ps, r.ok)
         IN with_r(Invoke("parseObj", <<ps>>))
    ELSE IF match(ps, "bracketL")
    THEN LET with_r(r) ==
             Ans(r.ps, r.ok)
         IN with_r(Invoke("parseBindingListFrom", <<next(ps), "bracketR", <<>>>>))
    ELSE Ans(ps, FALSE)

\* a tsIsUnambiguouslyStartOfFunctionType that does not look for the `=>`
\* after `( xxx )`: with it `(U)` would start a function type
tsIsUnambiguouslyStartOfFunctionTypeNoArrow(ps) ==
    IF match(next(ps), "parenR") \/ match(next(ps), "ellipsis")
    THEN Ans(next(ps), TRUE)
    ELSE LET s == tsSkipParameterStart(next(ps))
         IN Ans(s.ps, s.ans /\ Cur(s.ps).type \in
                          {"colon", "comma", "question", "eq", "parenR"})

tsIsUnambiguouslyStartOfFunctionType(ps) ==
    LET with_p1(p1) ==
    IF match(p1, "parenR") \/ match(p1, "ellipsis") THEN Ans(p1, TRUE)
    ELSE LET with_s(s) ==
         IF s.ans
         THEN IF match(s.ps, "colon") \/ match(s.ps, "comma")
                 \/ match(s.ps, "question") \/ match(s.ps, "eq")
              THEN Ans(s.ps, TRUE)
              ELSE IF match(s.ps, "parenR")
              THEN LET with_p2(p2) ==
                                           Ans(p2, match(p2, "arrow"))
                   IN with_p2(next(s.ps))
              ELSE Ans(s.ps, FALSE)
         ELSE Ans(s.ps, FALSE)
         IN with_s(Invoke("tsSkipParameterStart", <<p1>>))
    IN with_p1(next(ps))

tsIsStartOfFunctionType(ps) ==
    IF match(ps, "relational") THEN Ans(ps, TRUE)
    ELSE IF match(ps, "parenL")
    THEN LET with_r(r) ==
             Ans(tsLookAheadRestore(ps, r.ps), r.ans)
         IN with_r(Invoke("tsIsUnambiguouslyStartOfFunctionType", <<ps>>))
    ELSE Ans(ps, FALSE)

-----------------------------------------------------------------------------
(* Scoped flags: the push before the callback and the `finally` after it.  *)
(* `Finally` is applied to the callback's result whether it returned or    *)
(* raised.                                                                 *)

\* a tsInType that leaves the flag as it is
tsInTypeSkipped(ps) == ps

tsInType(ps) == [ps EXCEPT !.inType = TRUE]

tsInTypeFinally(old, r) == [r EXCEPT !.ps.inType = old.inType]

tsInDisallowConditionalTypesContext(ps) ==
    [ps EXCEPT !.inDisallowConditionalTypesContext = TRUE]

\* an allow context that leaves the flag as it is
tsInAllowConditionalTypesContextKept(ps) == ps

tsInAllowConditionalTypesContext(ps) ==
    [ps EXCEPT !.inDisallowConditionalTypesContext = FALSE]

\* a restore that runs only when the callback returns
tsInDisallowConditionalTypesContextOnReturn(old, r) ==
    IF r.ok
    THEN [r EXCEPT !.ps.inDisallowConditionalTypesContext =
                       old.inDisallowConditionalTypesContext]
    ELSE r

tsInDisallowConditionalTypesContextFinally(old, r) ==
    [r EXCEPT !.ps.inDisallowConditionalTypesContext =
                  old.inDisallowConditionalTypesContext]

tsInAmbientContext(ps) == [ps EXCEPT !.isAmbientContext = TRUE]

tsInAmbientContextFinally(old, r) ==
    [r EXCEPT !.ps.isAmbientContext = old.isAmbientContext]

\* tsTryParse(f) for an f that answers a boolean: keep f's state when it
\* answers true, reinstall the snapshot when it answers false
tsTryParseBool(ps, r) ==
    IF r.ans THEN r ELSE Ans(setLookaheadState(r.ps, getCurLookaheadState(ps)), FALSE)

\* a tsTryParse that never reinstalls its snapshot
tsTryParseNodeNoRestore(ps, r) == r

\* a tsTryParse that reinstalls the snapshot whatever f returns
tsTryParseNodeThenRestore(ps, r) ==
    IF ~r.ok THEN r
    ELSE [r EXCEPT !.ps = setLookaheadState(r.ps, getCurLookaheadState(ps))]

\* tsTryParse(f) for an f that returns a node or undefined; a raise inside f
\* is not caught
tsTryParseNode(ps, r) ==
    IF ~r.ok THEN r
    ELSE IF r.node # NoNode THEN r
    ELSE Ok(setLookaheadState(r.ps, getCurLookaheadState(ps)), NoNode)

-----------------------------------------------------------------------------
(* The type grammar *)


tsParseTypePredicateAsserts(ps) ==
    IF ~match(ps, "asserts") THEN Ans(ps, FALSE)
    ELSE LET with_p1(p1) ==
         IF ~tokenIsIdentifier(Cur(p1).type) /\ ~match(p1, "_this")
         THEN Ans(p1, FALSE)
         ELSE Ans(p1, TRUE)
         IN with_p1(next(ps))

tsParseTypePredicatePrefix(ps) ==
    LET with_id(id) ==
    IF ~id.ok THEN id
    ELSE IF ts_isContextual(id.ps, "is") /\ ~hasPrecedingLineBreak(id.ps)
    THEN Ok(next(id.ps), id.node)
    ELSE Ok(id.ps, NoNode)
    IN with_id(Invoke("parseIdent", <<ps, FALSE>>))

tsParseThisTypeOrThisTypePredicate(ps) ==
    LET with_thisKeyword(thisKeyword) ==
    LET with_p1(p1) ==
        IF ts_isContextual(p1, "is") /\ ~hasPrecedingLineBreak(p1)
        THEN LET with_ann(ann) ==
             IF ~ann.ok THEN ann
             ELSE Ok(ann.ps, [type |-> "TSTypePredicate", start |-> ps.pos,
                              parameterName |-> thisKeyword,
                              typeAnnotation |-> ann.node, asserts |-> FALSE])
             IN with_ann(Invoke("tsParseTypeAnnotation", <<next(p1), FALSE>>))
        ELSE Ok(p1, thisKeyword)
    IN with_p1(next(ps))
    IN with_thisKeyword([type |-> "TSThisType", start |-> ps.pos])

tsParseTypeAnnotation(ps, eatColon) ==
    LET c == IF eatColon THEN expect(tsInType(ps), "colon")
             ELSE Ok(tsInType(ps), NoNode)
        with_t(t) ==
            IF t.ok
            THEN tsInTypeFinally(ps,
                     Ok(t.ps, [type |-> "TSTypeAnnotation", start |-> ps.pos,
                               typeAnnotation |-> t.node]))
            ELSE tsInTypeFinally(ps, t)
    IN IF c.ok THEN with_t(tsParseType(c.ps))
       ELSE tsInTypeFinally(ps, c)

tsParseTypeOrTypePredicateAnnotation(ps, returnToken) ==
    LET with_p0(p0) ==
    LET with_e(e) ==
    LET with_body(body) ==
        tsInTypeFinally(ps, body)
    IN with_body(IF ~e.ok THEN e
          ELSE
          LET with_nodeStart(nodeStart) ==
          LET with_a(a) ==
          LET with_asserts(asserts) ==
          IF asserts /\ match(a.ps, "_this")
          THEN LET with_th(th) ==
               IF ~th.ok THEN th
               ELSE IF th.node.type = "TSThisType"
               THEN Ok(th.ps, [type |-> "TSTypeAnnotation", start |-> ps.pos,
                      typeAnnotation |->
                        [type |-> "TSTypePredicate", start |-> nodeStart,
                         parameterName |-> th.node,
                         typeAnnotation |-> NoNode, asserts |-> TRUE]])
               ELSE Ok(th.ps, [type |-> "TSTypeAnnotation", start |-> ps.pos,
                      typeAnnotation |->
                        [th.node EXCEPT !.start = nodeStart, !.asserts = TRUE]])
               IN with_th(Invoke("tsParseThisTypeOrThisTypePredicate", <<a.ps>>))
          ELSE
          LET with_v(v) ==
          IF ~v.ok THEN v
          ELSE IF v.node = NoNode
          THEN IF ~asserts
               THEN LET with_ann(ann) ==
                    IF ~ann.ok THEN ann
                    ELSE Ok(ann.ps, [ann.node EXCEPT !.start = ps.pos])
                    IN with_ann(Invoke("tsParseTypeAnnotation", <<v.ps, FALSE>>))
               ELSE LET with_id(id) ==
                    IF ~id.ok THEN id
                    ELSE Ok(id.ps, [type |-> "TSTypeAnnotation", start |-> ps.pos,
                           typeAnnotation |->
                             [type |-> "TSTypePredicate", start |-> nodeStart,
                              parameterName |-> id.node,
                              typeAnnotation |-> NoNode, asserts |-> TRUE]])
                    IN with_id(Invoke("parseIdent", <<v.ps, FALSE>>))
          ELSE LET with_ann(ann) ==
               IF ~ann.ok THEN ann
               ELSE Ok(ann.ps, [type |-> "TSTypeAnnotation", start |-> ps.pos,
                      typeAnnotation |->
                        [type |-> "TSTypePredicate", start |-> nodeStart,
                         parameterName |-> v.node,
                         typeAnnotation |-> ann.node, asserts |-> asserts]])
               IN with_ann(Invoke("tsParseTypeAnnotation", <<v.ps, FALSE>>))
          IN with_v(IF tsIsIdentifier(a.ps)
                   THEN tsTryParseNode(a.ps, Invoke("tsParseTypePredicatePrefix", <<a.ps>>))
                   ELSE Ok(a.ps, NoNode))
          IN with_asserts(a.ans)
          IN with_a(tsTryParseBool(e.ps, Invoke("tsParseTypePredicateAsserts", <<e.ps>>)))
          IN with_nodeStart(e.ps.pos))
    IN with_e(expect(p0, returnToken))
    IN with_p0(tsInType(ps))

\* host parseBindingList(tokTypes.parenR, true, true), then the kinds check
tsParseBindingListForSignature(ps) == parseBindingListFrom(ps, "parenR", <<>>)

\* tsFillSignature(returnToken, signature); the result's node holds the
\* parameters and the return type annotation (NoNode when there is none)
tsFillSignature(ps, returnToken) ==
    LET with_returnTokenRequired(returnTokenRequired) ==
    LET with_tp(tp) ==
    LET with_e(e) ==
    LET with_params(params) ==
        IF ~params.ok THEN params
        ELSE IF returnTokenRequired \/ match(params.ps, returnToken)
        THEN LET with_rt(rt) ==
                 IF ~rt.ok THEN rt
                 ELSE Ok(rt.ps, [parameters |-> params.node.elts,
                                 typeAnnotation |-> rt.node])
             IN with_rt(Invoke("tsParseTypeOrTypePredicateAnnotation", <<params.ps, returnToken>>))
        ELSE Ok(params.ps, [parameters |-> params.node.elts,
                            typeAnnotation |-> NoNode])
    IN with_params(IF e.ok THEN Invoke("tsParseBindingListForSignature", <<e.ps>>) ELSE e)
    IN with_e(IF tp.ok THEN expect(tp.ps, "parenL") ELSE tp)
    IN with_tp(Invoke("tsTryParseTypeParameters", <<ps, "tsParseNoneModifiers">>))
    IN with_returnTokenRequired(returnToken = "arrow")

tsParseFunctionOrConstructorType(ps, type, abstract) ==
    LET with_p1(p1) ==
    LET with_sig(sig) ==
        IF ~sig.ok THEN sig
        ELSE Ok(sig.ps, [type |-> type, start |-> ps.pos,
                         parameters |-> sig.node.parameters,
                         typeAnnotation |-> sig.node.typeAnnotation])
    IN with_sig(tsInDisallowConditionalTypesContextFinally(p1,
                   Invoke("tsFillSignature", <<tsInAllowConditionalTypesContext(p1), "arrow">>)))
    IN with_p1(IF type = "TSConstructorType"
              THEN next(IF abstract THEN next(ps) ELSE ps)
              ELSE ps)

isAbstractConstructorSignature(ps) ==
    ts_isContextual(ps, "abstract") /\ TokAt(ps, ps.pos + 1).type = "_new"

tsParseNonConditionalType(ps) ==
    LET f == Invoke("tsIsStartOfFunctionType", <<ps>>)
    IN  CASE f.ans ->
                Invoke("tsParseFunctionOrConstructorType", <<f.ps, "TSFunctionType", FALSE>>)
          [] ~f.ans /\ match(f.ps, "_new") ->
                Invoke("tsParseFunctionOrConstructorType", <<f.ps, "TSConstructorType", FALSE>>)
          [] ~f.ans /\ ~match(f.ps, "_new") /\ isAbstractConstructorSignature(f.ps) ->
                Invoke("tsParseFunctionOrConstructorType", <<f.ps, "TSConstructorType", TRUE>>)
          [] OTHER -> tsParseUnionTypeOrHigher(f.ps)

\* a grammar that disallows conditional types in the true branch as well:
\* with it `A extends B ? C extends D ? E : F : G` does not parse
ConditionalOperandDisallowsTrueType(branch) == branch # "falseType"

\* which branch of a conditional type is parsed with conditional types
\* disallowed: the `extends` operand only
ConditionalOperandDisallows(branch) == branch = "extendsType"

\* one operand of a conditional type, inside its scoped context
tsParseConditionalOperand(ps, branch) ==
    IF ConditionalOperandDisallows(branch)
    THEN tsInDisallowConditionalTypesContextFinally(ps,
             tsParseNonConditionalType(tsInDisallowConditionalTypesContext(ps)))
    ELSE tsInDisallowConditionalTypesContextFinally(ps,
             tsParseType(tsInAllowConditionalTypesContext(ps)))

\* the rest of a conditional type, after `checkType extends`
tsParseConditionalRest(type) ==
    LET with_ext(ext) ==
        LET q == IF ext.ok THEN expect(ext.ps, "question") ELSE ext
            with_tr(tr) ==
                LET c == IF tr.ok THEN expect(tr.ps, "colon") ELSE tr
                    with_fa(fa) ==
                        IF fa.ok
                        THEN Ok(fa.ps, [type |-> "TSConditionalType",
                                        start |-> type.node.start,
                                        checkType |-> type.node,
                                        extendsType |-> ext.node,
                                        trueType |-> tr.node,
                                        falseType |-> fa.node])
                        ELSE fa
                IN IF c.ok
                   THEN with_fa(Invoke("tsParseConditionalOperand", <<c.ps, "falseType">>))
                   ELSE c
        IN IF q.ok
           THEN with_tr(Invoke("tsParseConditionalOperand", <<q.ps, "trueType">>))
           ELSE q
    IN with_ext(Invoke("tsParseConditionalOperand", <<next(type.ps), "extendsType">>))

tsParseType(ps) ==
    LET with_type(type) ==
        IF type.ok
        THEN IF /\ ~type.ps.inDisallowConditionalTypesContext
                /\ ~hasPrecedingLineBreak(type.ps)
                /\ match(type.ps, "_extends")
             THEN tsParseConditionalRest(type)
             ELSE type
        ELSE type
    IN IF ps.inType THEN with_type(tsParseNonConditionalType(ps))
       ELSE raise(ps, ps.pos, "Assert fail")

\* the operator token that separates the constituents of a `kind` type
OperatorOf(kind) == IF kind = "TSUnionType" THEN "bitwiseOR" ELSE "bitwiseAND"

\* the do-while of tsParseUnionOrIntersectionType and its return: `types`
\* holds the constituents parsed so far, `start` the node's start
RECURSIVE tsParseUnionOrIntersectionLoop(_, _, _, _, _)
tsParseUnionOrIntersectionLoop(ps, kind, start, hasLeadingOperator, types) ==
    LET with_t(t) ==
        IF t.ok
        THEN CASE match(t.ps, OperatorOf(kind)) ->
                    tsParseUnionOrIntersectionLoop(next(t.ps), kind, start,
                        hasLeadingOperator, Append(types, t.node))
               [] ~match(t.ps, OperatorOf(kind))
                    /\ types = <<>> /\ ~hasLeadingOperator -> t
               [] OTHER -> Ok(t.ps, [type |-> kind, start |-> start,
                                     types |-> Append(types, t.node)])
        ELSE t
    IN with_t(IF kind = "TSUnionType" THEN tsParseIntersectionTypeOrHigher(ps)
              ELSE tsParseTypeOperatorOrHigher(ps))

tsParseUnionOrIntersectionType(ps, kind) ==
    tsParseUnionOrIntersectionLoop(eat(ps, OperatorOf(kind)), kind, ps.pos,
                                   match(ps, OperatorOf(kind)), <<>>)

tsParseIntersectionTypeOrHigher(ps) ==
    tsParseUnionOrIntersectionType(ps, "TSIntersectionType")

tsParseUnionTypeOrHigher(ps) ==
    tsParseUnionOrIntersectionType(ps, "TSUnionType")

tsParseTypeOperator(ps) ==
    LET with_operator(operator) ==
    LET with_t(t) ==
        IF ~t.ok THEN t
        ELSE IF operator = "readonly"
                /\ t.node.type \notin {"TSTupleType", "TSArrayType"}
        THEN raise(t.ps, ps.pos, "UnexpectedReadonly")
        ELSE Ok(t.ps, [type |-> "TSTypeOperator", start |-> ps.pos,
                       operator |-> operator, typeAnnotation |-> t.node])
    IN with_t(Invoke("tsParseTypeOperatorOrHigher", <<next(ps)>>))
    IN with_operator(Cur(ps).value)

tsParseConstraintForInferType(ps) ==
    IF match(ps, "_extends")
    THEN LET with_p1(p1) ==
         LET with_constraint(constraint) ==
             IF ~constraint.ok THEN constraint
             ELSE IF constraint.ps.inDisallowConditionalTypesContext
                     \/ ~match(constraint.ps, "question")
             THEN constraint
             ELSE Ok(constraint.ps, NoNode)
         IN with_constraint(tsInDisallowConditionalTypesContextFinally(p1,
                 Invoke("tsParseType", <<tsInDisallowConditionalTypesContext(p1)>>)))
         IN with_p1(next(ps))
    ELSE Ok(ps, NoNode)

tsParseInferType(ps) ==
    LET with_name(name) ==
    IF ~name.ok THEN name
    ELSE LET with_c(c) ==
             IF ~c.ok THEN c
             ELSE Ok(c.ps, [type |-> "TSInferType", start |-> ps.pos,
                            typeParameter |->
                              [type |-> "TSTypeParameter", start |-> ps.pos + 1,
                               name |-> name.node.name, constraint |-> c.node]])
         IN with_c(tsTryParseNode(name.ps, Invoke("tsParseConstraintForInferType", <<name.ps>>)))
    IN with_name(Invoke("parseIdent", <<next(ps), FALSE>>))

tsParseTypeOperatorOrHigher(ps) ==
    CASE tokenIsTSTypeOperator(Cur(ps).type) -> Invoke("tsParseTypeOperator", <<ps>>)
      [] ~tokenIsTSTypeOperator(Cur(ps).type) /\ ts_isContextual(ps, "infer") ->
            Invoke("tsParseInferType", <<ps>>)
      [] OTHER ->
            tsInDisallowConditionalTypesContextFinally(ps,
                tsParseArrayTypeOrHigher(tsInAllowConditionalTypesContext(ps)))

tsParseArrayTypeLoop(ps, type) ==
    IF ~hasPrecedingLineBreak(ps) /\ match(ps, "bracketL")
    THEN LET with_p1(p1) ==
         IF match(p1, "bracketR")
         THEN Invoke("tsParseArrayTypeLoop", <<next(p1),
                  [type |-> "TSArrayType", start |-> type.start,
                   elementType |-> type]>>)
         ELSE LET with_idx(idx) ==
              LET with_e(e) ==
                  IF ~e.ok THEN e
                  ELSE Invoke("tsParseArrayTypeLoop", <<e.ps,
                           [type |-> "TSIndexedAccessType", start |-> type.start,
                            objectType |-> type, indexType |-> idx.node]>>)
              IN with_e(IF idx.ok THEN expect(idx.ps, "bracketR") ELSE idx)
              IN with_idx(Invoke("tsParseType", <<p1>>))
         IN with_p1(next(ps))
    ELSE Ok(ps, type)

tsParseArrayTypeOrHigher(ps) ==
    LET with_t(t) ==
        IF t.ok THEN Invoke("tsParseArrayTypeLoop", <<t.ps, t.node>>) ELSE t
    IN with_t(tsParseNonArrayType(ps))

-----------------------------------------------------------------------------
(* Delimited lists *)

\* a terminator test that knows only `]`
tsIsListTerminatorBracket(ps, kind) == match(ps, "bracketR")

tsIsListTerminator(ps, kind) ==
    CASE kind \in {"EnumMembers", "TypeMembers"} -> match(ps, "braceR")
      [] kind = "HeritageClauseElement" -> match(ps, "braceL")
      [] kind = "TupleElementTypes" -> match(ps, "bracketR")
      [] kind = "TypeParametersOrArguments" -> match(ps, "relational")

\* parseElement(): the callbacks the type grammar passes, by name
tsParseListElement(ps, parseElement) ==
    CASE parseElement = "tsParseTupleElementType" -> tsParseTupleElementType(ps)
      [] parseElement = "tsParseType" -> Invoke("tsParseType", <<ps>>)
      [] parseElement = "tsParseTypeParameter" ->
            Invoke("tsParseTypeParameter", <<ps, "tsParseNoneModifiers">>)
      [] parseElement = "tsParseTypeParameterInOut" ->
            Invoke("tsParseTypeParameter", <<ps, "tsParseInOutModifiers">>)
      [] parseElement = "tsParseEnumMember" -> Invoke("tsParseEnumMember", <<ps>>)
      [] parseElement = "tsParseHeritageClauseElement" ->
            Invoke("tsParseHeritageClauseElement", <<ps>>)

\* expectSuccess = true; the node holds the elements and trailingCommaPos
RECURSIVE tsParseDelimitedListWorker(_, _, _, _, _)
tsParseDelimitedListWorker(ps, kind, parseElement, acc, trailingCommaPos) ==
    LET with_element(element) ==
        IF element.ok
        THEN CASE match(element.ps, "comma") ->
                    tsParseDelimitedListWorker(next(element.ps), kind,
                        parseElement, Append(acc, element.node), element.ps.pos)
               [] ~match(element.ps, "comma")
                    /\ tsIsListTerminator(element.ps, kind) ->
                    Ok(element.ps, [type |-> "list",
                                    elts |-> Append(acc, element.node),
                                    trailingCommaPos |-> -1])
               [] OTHER -> expect(element.ps, "comma")
        ELSE element
    IN IF tsIsListTerminator(ps, kind)
       THEN Ok(ps, [type |-> "list", elts |-> acc,
                    trailingCommaPos |-> trailingCommaPos])
       ELSE with_element(tsParseListElement(ps, parseElement))

tsParseDelimitedList(ps, kind, parseElement) ==
    tsParseDelimitedListWorker(ps, kind, parseElement, <<>>, -1)

tsParseBracketedList(ps, kind, parseElement, bracket, skipFirstToken) ==
    LET open == IF skipFirstToken THEN Ok(ps, NoNode)
                ELSE expect(ps, IF bracket THEN "bracketL" ELSE "relational")
        with_l(l) ==
            IF l.ok
            THEN LET close == expect(l.ps, IF bracket THEN "bracketR"
                                           ELSE "relational")
                 IN IF close.ok THEN Ok(close.ps, l.node) ELSE close
            ELSE l
    IN IF open.ok THEN with_l(tsParseDelimitedList(open.ps, kind, parseElement))
       ELSE open

-----------------------------------------------------------------------------
(* Tuple types *)

\* the `...` wrapper of a tuple element that started with an ellipsis
tsWrapRestElement(ps, n) ==
    IF match(ps, "ellipsis")
    THEN [type |-> "TSRestType", start |-> ps.pos, typeAnnotation |-> n]
    ELSE n

tsParseTupleElementType(ps) ==
    LET with_t(t) ==
        LET optional == match(t.ps, "question")
            p1 == eat(t.ps, "question")
            labeled == match(p1, "colon")
            p2 == eat(p1, "colon")
            with_e(e) ==
                IF e.ok
                THEN Ok(e.ps, tsWrapRestElement(ps,
                         [type |-> "TSNamedTupleMember", start |-> t.node.start,
                          optional |-> optional, label |-> t.node.typeName,
                          elementType |-> e.node]))
                ELSE e
        IN IF t.ok
           THEN CASE labeled ->
                       IF t.node.type = "TSTypeReference"
                          /\ t.node.typeParameters = NoNode
                          /\ t.node.typeName.type = "Identifier"
                       THEN with_e(tsParseType(p2))
                       ELSE raise(p2, t.node.start, "InvalidTupleMemberLabel")
                  [] ~labeled /\ optional ->
                       Ok(p2, tsWrapRestElement(ps,
                           [type |-> "TSOptionalType", start |-> t.node.start,
                            typeAnnotation |-> t.node]))
                  [] OTHER -> Ok(p2, tsWrapRestElement(ps, t.node))
           ELSE t
    IN with_t(tsParseType(eat(ps, "ellipsis")))

\* a rule that lets a rest element set seenOptionalElement too: with it
\* `[...a, b]` would raise OptionalTypeBeforeRequired
IsOptionalOrRestElement(el) ==
    \/ el.type = "TSNamedTupleMember" /\ el.optional
    \/ el.type \in {"TSOptionalType", "TSRestType"}

\* an element that sets seenOptionalElement
IsOptionalElement(el) ==
    (el.type = "TSNamedTupleMember" /\ el.optional) \/ el.type = "TSOptionalType"

\* an element that may not follow an optional element
IsMandatoryElement(el) ==
    /\ el.type # "TSRestType"
    /\ el.type # "TSOptionalType"
    /\ ~(el.type = "TSNamedTupleMember" /\ el.optional)

\* the node whose labelling counts: the argument of a rest element
LabelCheckNode(el) == IF el.type = "TSRestType" THEN el.typeAnnotation ELSE el

\* the forEach over node.elementTypes; labeledElements is "null" until the
\* first element sets it to "true" or "false".  A raise ends the loop and the
\* parse.
tsCheckTupleElements(ps, elts, i, seenOptionalElement, labeledElements) ==
    IF i > Len(elts) THEN Ok(ps, NoNode)
    ELSE
    LET with_el(el) ==
    LET with_isLabeled(isLabeled) ==
    LET with_labeled(labeled) ==
        IF seenOptionalElement /\ IsMandatoryElement(el)
        THEN raise(ps, el.start, "OptionalTypeBeforeRequired")
        ELSE IF labeled # isLabeled
        THEN raise(ps, LabelCheckNode(el).start, "MixedLabeledAndUnlabeledElements")
        ELSE Invoke("tsCheckTupleElements", <<ps, elts, i + 1,
                 seenOptionalElement \/ IsOptionalElement(el), labeled>>)
    IN with_labeled(IF labeledElements = "null" THEN isLabeled ELSE labeledElements)
    IN with_isLabeled(IF LabelCheckNode(el).type = "TSNamedTupleMember"
                      THEN "true" ELSE "false")
    IN with_el(elts[i])

tsParseTupleType(ps) ==
    LET with_l(l) ==
        LET with_chk(chk) ==
            IF chk.ok
            THEN Ok(l.ps, [type |-> "TSTupleType", start |-> ps.pos,
                           elementTypes |-> l.node.elts])
            ELSE chk
        IN IF l.ok
           THEN with_chk(Invoke("tsCheckTupleElements",
                                <<l.ps, l.node.elts, 1, FALSE, "null">>))
           ELSE l
    IN with_l(tsParseBracketedList(ps, "TupleElementTypes",
                                   "tsParseTupleElementType", TRUE, FALSE))

-----------------------------------------------------------------------------
(* Contextual keywords *)

\* eatContextual(name) called with a string.  The answer is true or false
\* for a name of the soft-keyword vocabulary; for any other name the host's
\* eatContextual runs and its answer is dropped ("undefined").
eatContextual(ps, name) ==
    IF name \in tsTokenType
    THEN IF ts_isContextual(ps, name) THEN Ans(next(ps), "true")
         ELSE Ans(ps, "false")
    ELSE IF match(ps, "name") /\ Cur(ps).value = name
         THEN Ans(next(ps), "undefined")
         ELSE Ans(ps, "undefined")

\* eatContextual(tsTokenType.x), called with a token type: the vocabulary
\* test is made on the object's string form and fails, the host compares the
\* token's value with the object and eats nothing, and the answer is dropped
eatContextualTokenType(ps, tokenType) == Ans(ps, "undefined")

\* host expectContextual(name): if (!this.eatContextual(name)) this.unexpected()
expectContextual(ps, name) ==
    LET with_e(e) ==
    IF e.ans = "true" THEN Ok(e.ps, NoNode) ELSE unexpected(e.ps)
    IN with_e(eatContextual(ps, name))

\* host semicolon()
semicolon(ps) ==
    IF match(ps, "semi") THEN Ok(next(ps), NoNode)
    ELSE IF canInsertSemicolon(ps) THEN Ok(ps, NoNode)
    ELSE unexpected(ps)

\* isLineTerminator(): this.eat(tokTypes.semi) || super.canInsertSemicolon()
isLineTerminator(ps) ==
    IF match(ps, "semi") THEN Ans(next(ps), TRUE)
    ELSE Ans(ps, canInsertSemicolon(ps))

-----------------------------------------------------------------------------
(* Mapped types and type literals *)

\* a tsIsStartOfMappedType that stops at the `[`: with it an index signature
\* would start a mapped type
tsIsStartOfMappedTypeAtBracket(ps) ==
    Ans(next(ps), match(next(ps), "bracketL"))

tsIsStartOfMappedType(ps) ==
    LET with_p1(p1) ==
    IF match(p1, "plusMin")
    THEN LET with_p2(p2) ==
                               Ans(p2, ts_isContextual(p2, "readonly"))
         IN with_p2(next(p1))
    ELSE LET with_p2(p2) ==
         IF ~match(p2, "bracketL") THEN Ans(p2, FALSE)
         ELSE LET with_p3(p3) ==
              IF ~tsIsIdentifier(p3) THEN Ans(p3, FALSE)
              ELSE LET with_p4(p4) ==
                                         Ans(p4, match(p4, "_in"))
                   IN with_p4(next(p3))
              IN with_p3(next(p2))
         IN with_p2(IF ts_isContextual(p1, "readonly") THEN next(p1) ELSE p1)
    IN with_p1(next(ps))

\* tsLookAhead(tsIsStartOfMappedType)
tsLookAheadIsStartOfMappedType(ps) ==
    LET r == Invoke("tsIsStartOfMappedType", <<ps>>)
    IN Ans(tsLookAheadRestore(ps, r.ps), r.ans)

\* tsExpectThenParseType / tsNextThenParseType / tsEatThenParseType:
\* tsDoThenParseType in a type context
tsExpectThenParseType(ps, token) ==
    LET e == expect(tsInType(ps), token)
    IN tsInTypeFinally(ps, IF e.ok THEN tsParseType(e.ps) ELSE e)

tsNextThenParseType(ps) == tsInTypeFinally(ps, tsParseType(next(tsInType(ps))))

tsEatThenParseType(ps, token) ==
    IF match(ps, token) THEN tsNextThenParseType(ps) ELSE Ok(ps, NoNode)

tsTryParseType(ps) == tsEatThenParseType(ps, "colon")

tsTryParseTypeAnnotation(ps) ==
    IF match(ps, "colon") THEN tsParseTypeAnnotation(ps, TRUE) ELSE Ok(ps, NoNode)

tsParseMappedTypeParameter(ps) ==
    LET name == parseIdent(ps, FALSE)
        with_c(c) ==
            IF c.ok
            THEN Ok(c.ps, [type |-> "TSTypeParameter", start |-> ps.pos,
                           name |-> name.node.name, constraint |-> c.node])
            ELSE c
    IN IF name.ok THEN with_c(tsExpectThenParseType(name.ps, "_in")) ELSE name

tsParseMappedType(ps) ==
    LET b == expect(ps, "braceL")
        e1 == eatContextualTokenType(b.ps, "readonly")
        ro == CASE ~b.ok -> [r |-> b, readonly |-> "undefined"]
                [] b.ok /\ match(b.ps, "plusMin") ->
                      [r |-> expectContextual(next(b.ps), "readonly"),
                       readonly |-> Cur(b.ps).value]
                [] OTHER ->
                      [r |-> Ok(e1.ps, NoNode),
                       readonly |-> IF e1.ans = "true" THEN "true"
                                    ELSE "undefined"]
        bl == IF ro.r.ok THEN expect(ro.r.ps, "bracketL") ELSE ro.r
        with_tp(tp) ==
            LET e2 == eatContextualTokenType(tp.ps, "as")
                with_as(as) ==
                    LET br == expect(as.ps, "bracketR")
                        opt == CASE ~br.ok -> [r |-> br, optional |-> "undefined"]
                                 [] br.ok /\ match(br.ps, "plusMin") ->
                                       [r |-> expect(next(br.ps), "question"),
                                        optional |-> Cur(br.ps).value]
                                 [] br.ok /\ match(br.ps, "question") ->
                                       [r |-> Ok(next(br.ps), NoNode),
                                        optional |-> "true"]
                                 [] OTHER -> [r |-> br, optional |-> "undefined"]
                        with_ty(ty) ==
                            LET semi == semicolon(ty.ps)
                                close == IF semi.ok THEN expect(semi.ps, "braceR")
                                         ELSE semi
                            IN CASE ~ty.ok -> ty
                                 [] ty.ok /\ ~close.ok -> close
                                 [] OTHER ->
                                       Ok(close.ps,
                                          [type |-> "TSMappedType",
                                           start |-> ps.pos,
                                           readonly |-> ro.readonly,
                                           typeParameter |-> tp.node,
                                           nameType |-> as.node,
                                           optional |-> opt.optional,
                                           typeAnnotation |-> ty.node])
                    IN CASE ~as.ok -> as
                         [] as.ok /\ ~opt.r.ok -> opt.r
                         [] OTHER -> with_ty(tsTryParseType(opt.r.ps))
            IN CASE ~tp.ok -> tp
                 [] tp.ok /\ e2.ans = "true" -> with_as(tsParseType(e2.ps))
                 [] OTHER -> with_as(Ok(e2.ps, NoNode))
    IN IF bl.ok THEN with_tp(tsParseMappedTypeParameter(bl.ps))
       ELSE bl

-----------------------------------------------------------------------------
(* Modifiers *)

\* tokenIsLiteralPropertyName of index.ts: keyword and soft-keyword tokens
tokenIsLiteralPropertyName(t) == t \in HostKeywordTypes \cup tsTokenType

isLiteralPropertyName(ps) == tokenIsLiteralPropertyName(Cur(ps).type)

tsTokenCanFollowModifier(ps) ==
    /\ \/ Cur(ps).type \in {"bracketL", "braceL", "star", "ellipsis", "privateId"}
       \/ isLiteralPropertyName(ps)
    /\ ~hasPrecedingLineBreak(ps)

tsNextTokenCanFollowModifier(ps) ==
    LET with_p1(p1) ==
                          Ans(p1, tsTokenCanFollowModifier(p1))
    IN with_p1(next(ps))

tsIsAccessModifier(modifier) == modifier \in {"private", "protected", "public"}

tsIsVarianceAnnotations(modifier) == modifier \in {"in", "out"}

tsIsStartOfStaticBlocks(ps) ==
    ts_isContextual(ps, "static") /\ TokAt(ps, ps.pos + 1).type = "braceL"

\* the answer is the modifier's name, or "undefined"
tsParseModifier(ps, allowedModifiers, stopOnStartOfClassStaticBlock) ==
    IF ~tokenIsIdentifier(Cur(ps).type) /\ Cur(ps).type # "_in"
    THEN Ans(ps, "undefined")
    ELSE LET with_modifier(modifier) ==
         IF modifier \notin allowedModifiers THEN Ans(ps, "undefined")
         ELSE IF stopOnStartOfClassStaticBlock /\ tsIsStartOfStaticBlocks(ps)
         THEN Ans(ps, "undefined")
         ELSE LET with_t(t) ==
              Ans(t.ps, IF t.ans THEN modifier ELSE "undefined")
              IN with_t(tsTryParseBool(ps, Invoke("tsNextTokenCanFollowModifier", <<ps>>)))
         IN with_modifier(Cur(ps).value)

\* a Modifier Set: the accessibility taken, and the names set to true
NoModifiers == [accessibility |-> "undefined", set |-> {}]

\* the rule read backwards: `after` must come first
enforceOrderReversed(modified, modifier, before, after) ==
    modifier = after /\ before \in modified.set

\* enforceOrder(loc, modifier, before, after)
enforceOrder(modified, modifier, before, after) ==
    modifier = before /\ after \in modified.set

\* incompatible(loc, modifier, mod1, mod2)
incompatible(modified, modifier, mod1, mod2) ==
    \/ mod1 \in modified.set /\ modifier = mod2
    \/ mod2 \in modified.set /\ modifier = mod1

\* the first diagnostic one pass of the loop raises for `modifier`, or "none"
tsModifierError(modified, modifier, disallowedModifiers, errorTemplate) ==
    LET with_disallowed(disallowed) ==
    IF tsIsAccessModifier(modifier)
    THEN IF modified.accessibility # "undefined"
         THEN "DuplicateAccessibilityModifier"
         ELSE IF \E after \in {"override", "static", "readonly"} :
                    enforceOrder(modified, modifier, modifier, after)
         THEN "InvalidModifiersOrder"
         ELSE disallowed
    ELSE IF tsIsVarianceAnnotations(modifier)
    THEN IF modifier \in modified.set THEN "DuplicateModifier"
         ELSE IF enforceOrder([modified EXCEPT !.set = @ \cup {modifier}],
                              modifier, "in", "out")
         THEN "InvalidModifiersOrder"
         ELSE disallowed
    ELSE IF modifier \in modified.set THEN "DuplicateModifier"
         ELSE IF \/ enforceOrder(modified, modifier, "static", "readonly")
                 \/ enforceOrder(modified, modifier, "static", "override")
                 \/ enforceOrder(modified, modifier, "override", "readonly")
                 \/ enforceOrder(modified, modifier, "abstract", "override")
         THEN "InvalidModifiersOrder"
         ELSE IF \/ incompatible(modified, modifier, "declare", "override")
                 \/ incompatible(modified, modifier, "static", "abstract")
         THEN "IncompatibleModifiers"
         ELSE disallowed
    IN with_disallowed(IF modifier \in disallowedModifiers
                      THEN errorTemplate ELSE "none")

\* the node of the result is the Modifier Set accumulated on `modified`
tsParseModifiers(ps, modified, allowedModifiers, disallowedModifiers, stopOnStartOfClassStaticBlock, errorTemplate) ==
    LET with_m(m) ==
    IF m.ans = "undefined" THEN Ok(m.ps, modified)
    ELSE LET with_e(e) ==
         IF e # "none" THEN raise(m.ps, m.ps.pos, e)
         ELSE Invoke("tsParseModifiers", <<m.ps,
                  IF tsIsAccessModifier(m.ans)
                  THEN [modified EXCEPT !.accessibility = m.ans]
                  ELSE [modified EXCEPT !.set = @ \cup {m.ans}],
                  allowedModifiers, disallowedModifiers,
                  stopOnStartOfClassStaticBlock, errorTemplate>>)
         IN with_e(tsModifierError(modified, m.ans, disallowedModifiers,
                                  errorTemplate))
    IN with_m(Invoke("tsParseModifier", <<ps, allowedModifiers \cup disallowedModifiers,
                             stopOnStartOfClassStaticBlock>>))

-----------------------------------------------------------------------------
(* Type members *)

tsParseTypeMemberSemicolon(ps) ==
    IF match(ps, "comma") THEN Ok(next(ps), NoNode)
    ELSE LET with_t(t) ==
         IF t.ans THEN Ok(t.ps, NoNode) ELSE expect(t.ps, "semi")
         IN with_t(isLineTerminator(ps))

tsParseSignatureMember(ps, kind, start) ==
    LET with_sig(sig) ==
    LET with_semi(semi) ==
        IF ~semi.ok THEN semi
        ELSE Ok(semi.ps, [type |-> kind, start |-> start,
                          parameters |-> sig.node.parameters,
                          typeAnnotation |-> sig.node.typeAnnotation])
    IN with_semi(IF sig.ok THEN tsParseTypeMemberSemicolon(sig.ps) ELSE sig)
    IN with_sig(Invoke("tsFillSignature", <<ps, "colon">>))

\* the checks made on an accessor's signature, in order; "none" when all pass
tsAccessorError(kind, sig) ==
    IF kind = "get"
    THEN IF Len(sig.parameters) > 0 THEN "GetAccesorParameters" ELSE "none"
    ELSE IF kind = "set"
    THEN IF Len(sig.parameters) # 1 THEN "SetAccesorParameters"
         ELSE IF sig.parameters[1] = "RestElement"
         THEN "SetAccesorCannotHaveRestParameter"
         ELSE IF sig.typeAnnotation # NoNode
         THEN "SetAccesorCannotHaveReturnType"
         ELSE "none"
    ELSE "none"

\* node: [start, key, kind]; kind is "undefined" unless an accessor
tsParsePropertyOrMethodSignature(ps, node, readonly) ==
    LET optional == match(ps, "question")
        p1 == eat(ps, "question")
        with_sig(sig) ==
            IF sig.ok
            THEN LET semi == tsParseTypeMemberSemicolon(sig.ps)
                     e == tsAccessorError(node.kind, sig.node)
                 IN CASE ~semi.ok -> semi
                      [] semi.ok /\ e = "SetAccesorCannotHaveReturnType" ->
                            raise(semi.ps, sig.node.typeAnnotation.start, e)
                      [] semi.ok /\ e \notin {"SetAccesorCannotHaveReturnType", "none"} ->
                            raise(semi.ps, semi.ps.pos, e)
                      [] OTHER ->
                            Ok(semi.ps,
                               [type |-> "TSMethodSignature", start |-> node.start,
                                key |-> node.key, optional |-> optional,
                                kind |-> IF node.kind = "undefined" THEN "method"
                                         ELSE node.kind,
                                parameters |-> sig.node.parameters,
                                typeAnnotation |-> sig.node.typeAnnotation])
            ELSE sig
        with_type(type) ==
            IF type.ok
            THEN LET semi == tsParseTypeMemberSemicolon(type.ps)
                 IN IF semi.ok
                    THEN Ok(semi.ps,
                            [type |-> "TSPropertySignature", start |-> node.start,
                             key |-> node.key, optional |-> optional,
                             readonly |-> readonly, typeAnnotation |-> type.node])
                    ELSE semi
            ELSE type
    IN CASE ~(match(p1, "parenL") \/ match(p1, "relational")) ->
              with_type(tsTryParseTypeAnnotation(p1))
         [] (match(p1, "parenL") \/ match(p1, "relational")) /\ readonly ->
              raise(p1, node.start, "ReadonlyForMethodSignature")
         [] (match(p1, "parenL") \/ match(p1, "relational")) /\ ~readonly
              /\ node.kind # "undefined" /\ match(p1, "relational") ->
              raise(p1, p1.pos, "AccesorCannotHaveTypeParameters")
         [] OTHER -> with_sig(Invoke("tsFillSignature", <<p1, "colon">>))

\* an index signature member `[name: Type]: Type`, tried before a property
\* name is read; the node is NoNode, and nothing is consumed, when the member
\* does not start with `[`, an identifier and `:`
tsTryParseIndexSignature(ps, node) ==
    IF ~(match(ps, "bracketL")
         /\ tokenIsIdentifier(TokAt(ps, ps.pos + 1).type)
         /\ TokAt(ps, ps.pos + 2).type = "colon")
    THEN Ok(ps, NoNode)
    ELSE LET with_id(id) ==
         LET with_idType(idType) ==
         LET with_close(close) ==
         LET with_type(type) ==
         LET with_semi(semi) ==
             IF ~semi.ok THEN semi
             ELSE Ok(semi.ps, [type |-> "TSIndexSignature", start |-> node.start,
                               readonly |-> node.readonly,
                               parameter |-> id.node.name,
                               typeAnnotation |-> type.node])
         IN with_semi(IF type.ok THEN tsParseTypeMemberSemicolon(type.ps) ELSE type)
         IN with_type(IF close.ok THEN Invoke("tsTryParseTypeAnnotation", <<close.ps>>) ELSE close)
         IN with_close(IF idType.ok THEN expect(idType.ps, "bracketR") ELSE idType)
         IN with_idType(IF id.ok THEN Invoke("tsParseTypeAnnotation", <<id.ps, TRUE>>) ELSE id)
         IN with_id(Invoke("parseIdent", <<next(ps), FALSE>>))

\* host parsePropertyName(prop): `[expression]`, a number, a string, or a
\* name (reserved words allowed); the node is [computed, key]
parsePropertyName(ps) ==
    IF match(ps, "bracketL")
    THEN LET with_p1(p1) ==
         LET with_key(key) ==
         LET with_close(close) ==
             IF ~close.ok THEN close
             ELSE Ok(close.ps, [computed |-> TRUE,
                                key |-> [type |-> "Computed",
                                         name |-> Cur(p1).value]])
         IN with_close(IF key.ok THEN expect(key.ps, "bracketR") ELSE key)
         IN with_key(IF Cur(p1).type \in {"name", "string", "num"}
                    THEN Ok(next(p1), NoNode) ELSE unexpected(p1))
         IN with_p1(next(ps))
    ELSE IF Cur(ps).type \in {"num", "string"}
    THEN Ok(next(ps), [computed |-> FALSE,
                       key |-> [type |-> "Literal", name |-> Cur(ps).value]])
    ELSE LET with_id(id) ==
         IF ~id.ok THEN id
         ELSE Ok(id.ps, [computed |-> FALSE,
                         key |-> [type |-> "Identifier", name |-> id.node.name]])
         IN with_id(Invoke("parseIdent", <<ps, TRUE>>))

\* a member that is neither a call nor a construct signature, after its
\* modifiers `mods`: an index signature, an accessor or a property or method
tsParseNamedTypeMember(ps, mods) ==
    LET readonly == "readonly" \in mods.node.set
        with_idx(idx) ==
            IF idx.ok /\ idx.node = NoNode
            THEN LET name == Invoke("parsePropertyName", <<idx.ps>>)
                     name2 == Invoke("parsePropertyName", <<name.ps>>)
                 IN CASE ~name.ok -> name
                      [] name.ok /\ ~name.node.computed
                           /\ name.node.key.type = "Identifier"
                           /\ name.node.key.name \in {"get", "set"}
                           /\ tsTokenCanFollowModifier(name.ps) ->
                            IF name2.ok
                            THEN tsParsePropertyOrMethodSignature(name2.ps,
                                     [start |-> ps.pos,
                                      kind |-> name.node.key.name,
                                      key |-> name2.node.key], readonly)
                            ELSE name2
                      [] OTHER ->
                            tsParsePropertyOrMethodSignature(name.ps,
                                [start |-> ps.pos, kind |-> "undefined",
                                 key |-> name.node.key], readonly)
            ELSE idx
    IN with_idx(Invoke("tsTryParseIndexSignature",
                       <<mods.ps, [start |-> ps.pos, readonly |-> readonly]>>))

tsParseTypeMember(ps) ==
    LET p1 == next(ps)
        mods == Invoke("tsParseModifiers",
                       <<ps, NoModifiers, {"readonly"},
                         {"declare", "abstract", "private", "protected",
                          "public", "static", "override"}, FALSE,
                         "InvalidModifierOnTypeMember">>)
    IN CASE match(ps, "parenL") \/ match(ps, "relational") ->
              Invoke("tsParseSignatureMember",
                     <<ps, "TSCallSignatureDeclaration", ps.pos>>)
         [] match(ps, "_new") ->
              IF match(p1, "parenL") \/ match(p1, "relational")
              THEN Invoke("tsParseSignatureMember",
                          <<p1, "TSConstructSignatureDeclaration", ps.pos>>)
              ELSE tsParsePropertyOrMethodSignature(p1,
                       [start |-> ps.pos, kind |-> "undefined",
                        key |-> [type |-> "Identifier", name |-> "new"]], FALSE)
         [] OTHER -> IF mods.ok THEN tsParseNamedTypeMember(ps, mods) ELSE mods

\* tsParseList(kind, parseElement) with parseElement = tsParseTypeMember
RECURSIVE tsParseList(_, _, _)
tsParseList(ps, kind, acc) ==
    LET with_m(m) ==
        IF m.ok THEN tsParseList(m.ps, kind, Append(acc, m.node)) ELSE m
    IN IF tsIsListTerminator(ps, kind)
       THEN Ok(ps, [type |-> "list", elts |-> acc])
       ELSE with_m(tsParseTypeMember(ps))

tsParseObjectTypeMembers(ps) ==
    LET open == expect(ps, "braceL")
        with_members(members) ==
            IF members.ok
            THEN LET close == expect(members.ps, "braceR")
                 IN IF close.ok THEN Ok(close.ps, members.node) ELSE close
            ELSE members
    IN IF open.ok THEN with_members(tsParseList(open.ps, "TypeMembers", <<>>))
       ELSE open

tsParseTypeLiteral(ps) ==
    LET with_m(m) ==
        IF m.ok
        THEN Ok(m.ps, [type |-> "TSTypeLiteral", start |-> ps.pos,
                       members |-> m.node.elts])
        ELSE m
    IN with_m(tsParseObjectTypeMembers(ps))

-----------------------------------------------------------------------------
(* Type parameters, references and arguments *)

\* the default parseModifiers of tsParseTypeParameter: no modifier is taken
tsParseNoneModifiers(ps) == Ok(ps, NoModifiers)

tsParseInOutModifiers(ps) ==
    Invoke("tsParseModifiers", <<ps, NoModifiers, {"in", "out"},
        {"public", "private", "protected", "readonly", "declare", "abstract",
         "override"}, FALSE, "InvalidModifierOnTypeParameter">>)

tsParseTypeParameter(ps, parseModifiers) ==
    LET with_m(m) ==
    LET with_name(name) ==
    LET with_constraint(constraint) ==
    LET with_default(default) ==
        IF ~default.ok THEN default
        ELSE Ok(default.ps, [type |-> "TSTypeParameter", start |-> ps.pos,
                             name |-> name.node.name,
                             constraint |-> constraint.node,
                             default |-> default.node])
    IN with_default(IF constraint.ok THEN Invoke("tsEatThenParseType", <<constraint.ps, "eq">>)
                   ELSE constraint)
    IN with_constraint(IF name.ok THEN Invoke("tsEatThenParseType", <<name.ps, "_extends">>)
                      ELSE name)
    IN with_name(IF m.ok THEN Invoke("parseIdent", <<m.ps, FALSE>>) ELSE m)
    IN with_m(IF parseModifiers = "tsParseInOutModifiers"
             THEN Invoke("tsParseInOutModifiers", <<ps>>) ELSE Invoke("tsParseNoneModifiers", <<ps>>))

tsParseTypeParameters(ps, parseModifiers) ==
    IF ~(match(ps, "relational") \/ match(ps, "jsxTagStart")) THEN unexpected(ps)
    ELSE LET with_l(l) ==
             IF ~l.ok THEN l
             ELSE IF Len(l.node.elts) = 0
             THEN raise(l.ps, l.ps.pos, "EmptyTypeParameters")
             ELSE Ok(l.ps, [type |-> "TSTypeParameterDeclaration",
                            start |-> ps.pos, params |-> l.node.elts])
         IN with_l(Invoke("tsParseBracketedList", <<next(ps), "TypeParametersOrArguments",
                      IF parseModifiers = "tsParseInOutModifiers"
                      THEN "tsParseTypeParameterInOut"
                      ELSE "tsParseTypeParameter", FALSE, TRUE>>))

tsTryParseTypeParameters(ps, parseModifiers) ==
    IF match(ps, "relational") THEN Invoke("tsParseTypeParameters", <<ps, parseModifiers>>)
    ELSE Ok(ps, NoNode)

tsParseEntityNameLoop(ps, entity, allowReservedWords) ==
    IF ~match(ps, "dot") THEN Ok(ps, entity)
    ELSE LET with_right(right) ==
         IF ~right.ok THEN right
         ELSE Invoke("tsParseEntityNameLoop", <<right.ps,
                  [type |-> "TSQualifiedName", start |-> entity.start,
                   left |-> entity, right |-> right.node],
                  allowReservedWords>>)
         IN with_right(Invoke("parseIdent", <<next(ps), allowReservedWords>>))

tsParseEntityName(ps, allowReservedWords) ==
    LET with_entity(entity) ==
    IF ~entity.ok THEN entity
    ELSE Invoke("tsParseEntityNameLoop", <<entity.ps, entity.node, allowReservedWords>>)
    IN with_entity(Invoke("parseIdent", <<ps, allowReservedWords>>))

tsParseTypeArguments(ps) ==
    LET with_p0(p0) ==
    LET with_e(e) ==
    LET with_l(l) ==
        IF ~l.ok THEN l
        ELSE IF Len(l.node.elts) = 0
        THEN raise(l.ps, l.ps.pos, "EmptyTypeArguments")
        ELSE LET with_close(close) ==
             IF ~close.ok THEN close
             ELSE Ok(close.ps, [type |-> "TSTypeParameterInstantiation",
                                start |-> ps.pos, params |-> l.node.elts])
             IN with_close(expect(l.ps, "relational"))
    IN with_l(tsInTypeFinally(ps,
                 IF e.ok
                 THEN Invoke("tsParseDelimitedList", <<e.ps, "TypeParametersOrArguments",
                                           "tsParseType">>)
                 ELSE e))
    IN with_e(expect(p0, "relational"))
    IN with_p0(tsInType(ps))

tsParseTypeReference(ps) ==
    LET with_name(name) ==
    IF ~name.ok THEN name
    ELSE IF ~hasPrecedingLineBreak(name.ps) /\ match(name.ps, "relational")
    THEN LET with_args(args) ==
         IF ~args.ok THEN args
         ELSE Ok(args.ps, [type |-> "TSTypeReference", start |-> ps.pos,
                           typeName |-> name.node, typeParameters |-> args.node])
         IN with_args(Invoke("tsParseTypeArguments", <<name.ps>>))
    ELSE Ok(name.ps, [type |-> "TSTypeReference", start |-> ps.pos,
                      typeName |-> name.node, typeParameters |-> NoNode])
    IN with_name(Invoke("tsParseEntityName", <<ps, TRUE>>))

tsParseParenthesizedType(ps) ==
    LET open == expect(ps, "parenL")
        with_t(t) ==
            IF t.ok
            THEN LET close == expect(t.ps, "parenR")
                 IN IF close.ok
                    THEN Ok(close.ps, [type |-> "TSParenthesizedType",
                                       start |-> ps.pos,
                                       typeAnnotation |-> t.node])
                    ELSE close
            ELSE t
    IN IF open.ok THEN with_t(tsParseType(open.ps)) ELSE open

\* this.type is num, string, true or false: host parseExprAtom takes the token
tsParseLiteralTypeNode(ps) ==
    IF Cur(ps).type \in {"num", "string", "_true", "_false"}
    THEN Ok(next(ps), [type |-> "TSLiteralType", start |-> ps.pos,
                       literal |-> Cur(ps).value])
    ELSE unexpected(ps)

\* host parseTemplate: a template without substitutions
tsParseTemplateLiteralType(ps) ==
    LET with_open(open) ==
    LET with_q(q) ==
    LET with_close(close) ==
        IF ~close.ok THEN close
        ELSE Ok(close.ps, [type |-> "TSLiteralType", start |-> ps.pos,
                           literal |-> "template"])
    IN with_close(IF q.ok THEN expect(q.ps, "backQuote") ELSE q)
    IN with_q(IF open.ok THEN expect(open.ps, "template") ELSE open)
    IN with_open(expect(ps, "backQuote"))

tsParseImportType(ps) ==
    LET with_i(i) ==
    LET with_open(open) ==
    LET with_arg(arg) ==
    LET with_close(close) ==
    LET with_q(q) ==
    LET with_args(args) ==
        IF ~args.ok THEN args
        ELSE Ok(args.ps, [type |-> "TSImportType", start |-> ps.pos,
                          qualifier |-> q.node, typeParameters |-> args.node])
    IN with_args(IF ~q.ok THEN q
                ELSE IF match(q.ps, "relational") THEN Invoke("tsParseTypeArguments", <<q.ps>>)
                ELSE Ok(q.ps, NoNode))
    IN with_q(IF ~close.ok THEN close
             ELSE IF match(close.ps, "dot")
             THEN Invoke("tsParseEntityName", <<next(close.ps), TRUE>>)
             ELSE Ok(close.ps, NoNode))
    IN with_close(IF arg.ok THEN expect(arg.ps, "parenR") ELSE arg)
    IN with_arg(IF ~open.ok THEN open
               ELSE IF ~match(open.ps, "string")
               THEN raise(open.ps, open.ps.pos, "UnsupportedImportTypeArgument")
               ELSE Ok(next(open.ps), NoNode))
    IN with_open(IF i.ok THEN expect(i.ps, "parenL") ELSE i)
    IN with_i(expect(ps, "_import"))

\* the test for type arguments reads `tt.lt`, and no `tt` is in scope: the
\* test throws whenever no line break precedes the current token
tsParseTypeQuery(ps) ==
    LET with_t(t) ==
    LET with_name(name) ==
        IF ~name.ok THEN name
        ELSE IF ~hasPrecedingLineBreak(name.ps)
        THEN raise(name.ps, name.ps.pos, "ReferenceError: tt is not defined")
        ELSE Ok(name.ps, [type |-> "TSTypeQuery", start |-> ps.pos,
                          exprName |-> name.node])
    IN with_name(IF ~t.ok THEN t
                ELSE IF match(t.ps, "_import") THEN Invoke("tsParseImportType", <<t.ps>>)
                ELSE Invoke("tsParseEntityName", <<t.ps, TRUE>>))
    IN with_t(expect(ps, "_typeof"))

tsParseNonArrayType(ps) ==
    LET type == Cur(ps).type
    IN
    CASE type \in {"string", "num", "_true", "_false"} -> Invoke("tsParseLiteralTypeNode", <<ps>>)
      [] type = "plusMin" ->
            IF Cur(ps).value = "-"
            THEN IF TokAt(ps, ps.pos + 1).type # "num" THEN unexpected(ps)
                 ELSE Ok(next(next(ps)), [type |-> "TSLiteralType",
                                          start |-> ps.pos,
                                          literal |-> "UnaryExpression"])
            ELSE unexpected(ps)
      [] type = "_this" -> Invoke("tsParseThisTypeOrThisTypePredicate", <<ps>>)
      [] type = "_typeof" -> Invoke("tsParseTypeQuery", <<ps>>)
      [] type = "_import" -> Invoke("tsParseImportType", <<ps>>)
      [] type = "braceL" ->
            LET m == Invoke("tsLookAheadIsStartOfMappedType", <<ps>>)
            IN IF m.ans THEN Invoke("tsParseMappedType", <<m.ps>>)
               ELSE Invoke("tsParseTypeLiteral", <<m.ps>>)
      [] type = "bracketL" -> Invoke("tsParseTupleType", <<ps>>)
      [] type = "parenL" -> Invoke("tsParseParenthesizedType", <<ps>>)
      [] type \in {"backQuote", "dollarBraceL"} -> Invoke("tsParseTemplateLiteralType", <<ps>>)
      [] OTHER ->
            IF tokenIsIdentifier(type) \/ type = "_void" \/ type = "_null"
            THEN LET with_nodeType(nodeType) ==
                     IF nodeType # "undefined" /\ TokAt(ps, ps.pos + 1).type # "dot"
                     THEN Ok(next(ps), [type |-> nodeType, start |-> ps.pos])
                     ELSE Invoke("tsParseTypeReference", <<ps>>)
                 IN with_nodeType(IF type = "_void" THEN "TSVoidKeyword"
                                 ELSE IF type = "_null" THEN "TSNullKeyword"
                                 ELSE keywordTypeFromName(Cur(ps).value))
            ELSE unexpected(ps)

-----------------------------------------------------------------------------
(* Enums, heritage clauses, interfaces *)

\* host parseMaybeAssign, reduced to one literal or identifier token
parseMaybeAssign(ps) ==
    IF tokenIsIdentifier(Cur(ps).type) \/ Cur(ps).type \in {"num", "string"}
    THEN Ok(next(ps), [type |-> "Expression", start |-> ps.pos])
    ELSE unexpected(ps)

tsParseEnumMember(ps) ==
    LET with_id(id) ==
    LET with_init(init) ==
        IF ~init.ok THEN init
        ELSE Ok(init.ps, [type |-> "TSEnumMember", start |-> ps.pos,
                          id |-> id.node.name, initializer |-> init.node])
    IN with_init(IF ~id.ok THEN id
                ELSE IF match(id.ps, "eq") THEN Invoke("parseMaybeAssign", <<next(id.ps)>>)
                ELSE Ok(id.ps, NoNode))
    IN with_id(IF match(ps, "string")
              THEN Ok(next(ps), [type |-> "Literal", name |-> Cur(ps).value,
                                 start |-> ps.pos])
              ELSE Invoke("parseIdent", <<ps, TRUE>>))

tsParseEnumDeclaration(ps, start, const, declare) ==
    LET with_e(e) ==
    LET with_id(id) ==
    LET with_open(open) ==
    LET with_members(members) ==
    LET with_close(close) ==
        IF ~close.ok THEN close
        ELSE Ok(close.ps, [type |-> "TSEnumDeclaration", start |-> start,
                           const |-> const, declare |-> declare,
                           id |-> id.node.name, members |-> members.node.elts])
    IN with_close(IF members.ok THEN expect(members.ps, "braceR") ELSE members)
    IN with_members(IF open.ok
                   THEN Invoke("tsParseDelimitedList", <<open.ps, "EnumMembers",
                                             "tsParseEnumMember">>)
                   ELSE open)
    IN with_open(IF id.ok THEN expect(id.ps, "braceL") ELSE id)
    IN with_id(IF e.ok THEN Invoke("parseIdent", <<e.ps, FALSE>>) ELSE e)
    IN with_e(expectContextual(ps, "enum"))

tsParseHeritageClauseElement(ps) ==
    LET with_name(name) ==
    LET with_args(args) ==
        IF ~args.ok THEN args
        ELSE Ok(args.ps, [type |-> "TSExpressionWithTypeArguments",
                          start |-> ps.pos, expression |-> name.node,
                          typeParameters |-> args.node])
    IN with_args(IF ~name.ok THEN name
                ELSE IF match(name.ps, "relational")
                THEN Invoke("tsParseTypeArguments", <<name.ps>>)
                ELSE Ok(name.ps, NoNode))
    IN with_name(Invoke("tsParseEntityName", <<ps, TRUE>>))

tsParseHeritageClause(ps, token) ==
    LET with_l(l) ==
        IF ~l.ok THEN l
        ELSE IF Len(l.node.elts) = 0
        THEN raise(l.ps, ps.pos, "EmptyHeritageClauseType")
        ELSE l
    IN with_l(Invoke("tsParseDelimitedList", <<ps, "HeritageClauseElement",
                                  "tsParseHeritageClauseElement">>))

tsParseInterfaceDeclaration(ps, start, declare) ==
    IF hasFollowingLineBreak(ps) THEN Ok(ps, NoNode)
    ELSE
    LET with_e(e) ==
    LET with_id(id) ==
    LET with_tp(tp) ==
    LET with_ext(ext) ==
    LET with_body(body) ==
        IF ~body.ok THEN body
        ELSE Ok(body.ps, [type |-> "TSInterfaceDeclaration", start |-> start,
                          declare |-> declare, id |-> id.node.name,
                          body |-> body.node.elts])
    IN with_body(IF ~ext.ok THEN ext
                ELSE tsInTypeFinally(ext.ps,
                         Invoke("tsParseObjectTypeMembers", <<tsInType(ext.ps)>>)))
    IN with_ext(IF ~tp.ok THEN tp
               ELSE IF match(tp.ps, "_extends")
               THEN Invoke("tsParseHeritageClause", <<next(tp.ps), "extends">>)
               ELSE Ok(tp.ps, NoNode))
    IN with_tp(IF id.ok THEN Invoke("tsTryParseTypeParameters", <<id.ps, "tsParseInOutModifiers">>)
              ELSE id)
    IN with_id(IF ~e.ok THEN e
              ELSE IF tokenIsIdentifier(Cur(e.ps).type) THEN Invoke("parseIdent", <<e.ps, FALSE>>)
              ELSE raise(e.ps, e.ps.pos, "MissingInterfaceName"))
    IN with_e(expectContextual(ps, "interface"))

-----------------------------------------------------------------------------
(* Host statements and expressions, reduced to the shapes the declaration  *)
(* dispatcher meets.  Every statement the host parses is entered in        *)
(* stmtLog with the value isAmbientContext has when it is parsed.          *)


logStatement(ps, kind) ==
    [ps EXCEPT !.stmtLog = Append(@, [kind |-> kind, start |-> ps.pos,
                                      ambient |-> ps.isAmbientContext])]

\* host parseExpression: an identifier or a literal, then an optional call
parseExpression(ps) ==
    IF ~(tokenIsIdentifier(Cur(ps).type) \/ Cur(ps).type \in {"num", "string"})
    THEN unexpected(ps)
    ELSE
    LET with_atom(atom) ==
    LET with_p1(p1) ==
    IF ~match(p1, "parenL") THEN Ok(p1, atom)
    ELSE LET with_p2(p2) ==
         LET with_arg(arg) ==
         LET with_close(close) ==
             IF ~close.ok THEN close
             ELSE Ok(close.ps, [type |-> "CallExpression", name |-> atom.name,
                                start |-> ps.pos])
         IN with_close(IF arg.ok THEN expect(arg.ps, "parenR") ELSE arg)
         IN with_arg(IF match(p2, "parenR") THEN Ok(p2, NoNode)
                    ELSE Invoke("parseMaybeAssign", <<p2>>))
         IN with_p2(next(p1))
    IN with_p1(next(ps))
    IN with_atom(IF tokenIsIdentifier(Cur(ps).type)
                THEN [type |-> "Identifier", name |-> Cur(ps).value,
                      start |-> ps.pos]
                ELSE [type |-> "Literal", name |-> Cur(ps).value,
                      start |-> ps.pos])

\* host parseExpressionStatement(node, expr)
superParseExpressionStatement(ps, start, expr) ==
    LET with_semi(semi) ==
    IF ~semi.ok THEN semi
    ELSE Ok(semi.ps, [type |-> "ExpressionStatement", start |-> start,
                      expression |-> expr])
    IN with_semi(semicolon(ps))

\* host parseFunctionStatement: function name() [: Type] and a body or, in
\* place of a body, a semicolon
parseFunctionStatement(ps, start, declare) ==
    LET with_p0(p0) ==
    LET with_f(f) ==
    LET with_id(id) ==
    LET with_open(open) ==
    LET with_close(close) ==
    LET with_rt(rt) ==
    LET with_body(body) ==
        IF ~body.ok THEN body
        ELSE Ok(body.ps, [type |-> "FunctionDeclaration", start |-> start,
                          declare |-> declare, id |-> id.node.name])
    IN with_body(IF ~rt.ok THEN rt
                ELSE IF match(rt.ps, "braceL") THEN expect(next(rt.ps), "braceR")
                ELSE semicolon(rt.ps))
    IN with_rt(IF close.ok THEN Invoke("tsTryParseTypeAnnotation", <<close.ps>>) ELSE close)
    IN with_close(IF open.ok THEN expect(open.ps, "parenR") ELSE open)
    IN with_open(IF id.ok THEN expect(id.ps, "parenL") ELSE id)
    IN with_id(IF f.ok THEN Invoke("parseIdent", <<f.ps, FALSE>>) ELSE f)
    IN with_f(expect(p0, "_function"))
    IN with_p0(logStatement(ps, "FunctionDeclaration"))

\* host parseVarStatement(node, kind): var name;
parseVarStatement(ps, start, declare) ==
    LET with_p0(p0) ==
    LET with_id(id) ==
    LET with_semi(semi) ==
        IF ~semi.ok THEN semi
        ELSE Ok(semi.ps, [type |-> "VariableDeclaration", start |-> start,
                          declare |-> declare, id |-> id.node.name])
    IN with_semi(IF id.ok THEN semicolon(id.ps) ELSE id)
    IN with_id(Invoke("parseIdent", <<next(p0), FALSE>>))
    IN with_p0(logStatement(ps, "VariableDeclaration"))

-----------------------------------------------------------------------------
(* Modules, namespaces, type aliases *)

\* while (this.type !== tokTypes.braceR) body.push(super.parseStatement(null, true))
tsParseModuleBlockBody(ps, acc) ==
    IF match(ps, "braceR") THEN Ok(ps, [type |-> "list", elts |-> acc])
    ELSE LET with_stmt(stmt) ==
         IF ~stmt.ok THEN stmt
         ELSE Invoke("tsParseModuleBlockBody", <<stmt.ps, Append(acc, stmt.node.type)>>)
         IN with_stmt(Invoke("parseStatement", <<ps>>))

\* the loop stops at the closing brace and nothing consumes it
tsParseModuleBlock(ps) ==
    LET with_open(open) ==
    LET with_body(body) ==
        IF ~body.ok THEN body
        ELSE Ok(body.ps, [type |-> "TSModuleBlock", start |-> ps.pos,
                          body |-> body.node.elts])
    IN with_body(IF open.ok THEN Invoke("tsParseModuleBlockBody", <<open.ps, <<>>>>) ELSE open)
    IN with_open(expect(ps, "braceL"))

tsParseAmbientExternalModuleDeclaration(ps, start) ==
    LET with_id(id) ==
    LET with_body(body) ==
        IF ~body.ok THEN body
        ELSE Ok(body.ps, [type |-> "TSModuleDeclaration", start |-> start,
                          global |-> ts_isContextual(ps, "global"),
                          id |-> id.node.name, body |-> body.node])
    IN with_body(IF ~id.ok THEN id
                ELSE IF match(id.ps, "braceL") THEN Invoke("tsParseModuleBlock", <<id.ps>>)
                ELSE semicolon(id.ps))
    IN with_id(IF ts_isContextual(ps, "global") THEN Invoke("parseIdent", <<ps, FALSE>>)
              ELSE IF match(ps, "string")
              THEN Ok(next(ps), [type |-> "Literal", name |-> Cur(ps).value,
                                 start |-> ps.pos])
              ELSE unexpected(ps))

tsParseModuleOrNamespaceDeclaration(ps, start) ==
    LET with_id(id) ==
    LET with_body(body) ==
        IF ~body.ok THEN body
        ELSE Ok(body.ps, [type |-> "TSModuleDeclaration", start |-> start,
                          global |-> FALSE,
                          id |-> id.node.name, body |-> body.node])
    IN with_body(IF ~id.ok THEN id
                ELSE IF match(id.ps, "dot")
                THEN Invoke("tsParseModuleOrNamespaceDeclaration", <<next(id.ps), id.ps.pos + 1>>)
                ELSE Invoke("tsParseModuleBlock", <<id.ps>>))
    IN with_id(Invoke("parseIdent", <<ps, FALSE>>))

tsParseTypeAliasDeclaration(ps, start) ==
    LET with_id(id) ==
    LET with_p0(p0) ==
    LET with_tp(tp) ==
    LET with_eq(eq) ==
    LET with_body(body) ==
    LET with_t(t) ==
    LET with_semi(semi) ==
        IF ~semi.ok THEN semi
        ELSE Ok(semi.ps, [type |-> "TSTypeAliasDeclaration", start |-> start,
                          id |-> id.node.name, typeAnnotation |-> t.node])
    IN with_semi(IF t.ok THEN semicolon(t.ps) ELSE t)
    IN with_t(IF id.ok THEN tsInTypeFinally(id.ps, body) ELSE id)
    IN with_body(IF ~eq.ok THEN eq
                ELSE IF ts_isContextual(eq.ps, "interface")
                        /\ TokAt(eq.ps, eq.ps.pos + 1).type # "dot"
                THEN Ok(next(eq.ps), [type |-> "TSIntrinsicKeyword",
                                      start |-> eq.ps.pos])
                ELSE Invoke("tsParseType", <<eq.ps>>))
    IN with_eq(IF tp.ok THEN expect(tp.ps, "eq") ELSE tp)
    IN with_tp(Invoke("tsTryParseTypeParameters", <<p0, "tsParseInOutModifiers">>))
    IN with_p0(tsInType(id.ps))
    IN with_id(Invoke("parseIdent", <<ps, FALSE>>))

-----------------------------------------------------------------------------
(* Classes *)

\* isPrivateNameConflicted(privateNameMap, element) for fields and methods
\* that are not accessors: the name was declared before
isPrivateNameConflicted(privateNameMap, name) == name \in privateNameMap

\* host parseMethod: () [: Type] { }; nothing in the host or the plugin sets
\* `abstract` on the function node it returns
superParseMethod(ps) ==
    LET with_open(open) ==
    LET with_close(close) ==
    LET with_rt(rt) ==
    LET with_b1(b1) ==
    LET with_b2(b2) ==
        IF ~b2.ok THEN b2
        ELSE Ok(b2.ps, [type |-> "FunctionExpression", start |-> ps.pos,
                        abstract |-> FALSE, body |-> TRUE])
    IN with_b2(IF b1.ok THEN expect(b1.ps, "braceR") ELSE b1)
    IN with_b1(IF rt.ok THEN expect(rt.ps, "braceL") ELSE rt)
    IN with_rt(IF close.ok THEN Invoke("tsTryParseTypeAnnotation", <<close.ps>>) ELSE close)
    IN with_close(IF open.ok THEN expect(open.ps, "parenR") ELSE open)
    IN with_open(expect(ps, "parenL"))

parseMethod(ps) ==
    LET with_method(method) ==
    IF ~method.ok THEN method
    ELSE IF method.node.abstract /\ method.node.body
    THEN raise(method.ps, method.node.start, "AbstractMethodHasImplementation")
    ELSE method
    IN with_method(Invoke("superParseMethod", <<ps>>))

parseClassMethod(ps, key) ==
    LET with_tp(tp) ==
    IF ~tp.ok THEN tp
    ELSE IF tp.node # NoNode /\ key.name = "constructor"
    THEN raise(tp.ps, tp.node.start, "ConstructorHasTypeParameters")
    ELSE LET with_value(value) ==
         IF ~value.ok THEN value
         ELSE Ok(value.ps, [type |-> "MethodDefinition", start |-> key.start,
                            key |-> key])
         IN with_value(Invoke("parseMethod", <<tp.ps>>))
    IN with_tp(Invoke("tsTryParseTypeParameters", <<ps, "tsParseNoneModifiers">>))

parseClassField(ps, key) ==
    IF key.type = "Identifier" /\ key.name = "constructor"
    THEN raise(ps, key.start, "Classes can't have a field named 'constructor'")
    ELSE LET with_value(value) ==
         LET with_semi(semi) ==
             IF ~semi.ok THEN semi
             ELSE Ok(semi.ps, [type |-> "PropertyDefinition",
                               start |-> key.start, key |-> key])
         IN with_semi(IF value.ok THEN semicolon(value.ps) ELSE value)
         IN with_value(IF match(ps, "eq") THEN Invoke("parseMaybeAssign", <<next(ps)>>)
                      ELSE Ok(ps, NoNode))

\* parseClassElement for an element without static, async, generator or
\* accessor prefix: a private or plain name, then a method or a field
parseClassElement(ps) ==
    IF match(ps, "semi") THEN Ok(next(ps), NoNode)
    ELSE IF ~(match(ps, "privateId") \/ tokenIsIdentifier(Cur(ps).type))
    THEN unexpected(ps)
    ELSE LET with_key(key) ==
         LET with_p1(p1) ==
             IF match(p1, "relational") \/ match(p1, "parenL")
             THEN Invoke("parseClassMethod", <<p1, key>>)
             ELSE Invoke("parseClassField", <<p1, key>>)
         IN with_p1(next(ps))
         IN with_key([type |-> IF match(ps, "privateId") THEN "PrivateIdentifier"
                              ELSE "Identifier",
                     name |-> Cur(ps).value, start |-> ps.pos])

\* the loop of originParseClass over the class elements
parseClassBody(ps, privateNameMap, acc) ==
    IF match(ps, "braceR") THEN Ok(ps, [type |-> "list", elts |-> acc])
    ELSE LET with_element(element) ==
         IF ~element.ok THEN element
         ELSE IF element.node = NoNode
         THEN Invoke("parseClassBody", <<element.ps, privateNameMap, acc>>)
         ELSE LET with_key(key) ==
              LET with_private(private) ==
              LET with_p1(p1) ==
                  Invoke("parseClassBody", <<p1,
                      IF private THEN privateNameMap \cup {key.name}
                      ELSE privateNameMap,
                      Append(acc, element.node)>>)
              IN with_p1(IF private /\ isPrivateNameConflicted(privateNameMap, key.name)
                        THEN raiseRecoverable(element.ps, key.start,
                                 "Identifier has already been declared")
                        ELSE element.ps)
              IN with_private(key.type = "PrivateIdentifier")
              IN with_key(element.node.key)
         IN with_element(Invoke("parseClassElement", <<ps>>))

originParseClass(ps, start, abstract) ==
    LET with_id(id) ==
    LET with_sup(sup) ==
    LET with_open(open) ==
    LET with_body(body) ==
        IF ~body.ok THEN body
        ELSE Ok(next(body.ps), [type |-> "ClassDeclaration", start |-> start,
                                abstract |-> abstract, id |-> id.node.name,
                                body |-> body.node.elts])
    IN with_body(IF open.ok THEN Invoke("parseClassBody", <<open.ps, {}, <<>>>>) ELSE open)
    IN with_open(IF sup.ok THEN expect(sup.ps, "braceL") ELSE sup)
    IN with_sup(IF ~id.ok THEN id
               ELSE IF match(id.ps, "_extends") THEN Invoke("parseIdent", <<next(id.ps), FALSE>>)
               ELSE Ok(id.ps, NoNode))
    IN with_id(Invoke("parseIdent", <<next(ps), FALSE>>))

\* parseClass: inAbstractClass is set for the class and put back in a finally
parseClass(ps, start, abstract) ==
    LET with_p0(p0) ==
    LET with_r(r) ==
        [r EXCEPT !.ps.inAbstractClass = ps.inAbstractClass]
    IN with_r(Invoke("originParseClass", <<p0, start, abstract>>))
    IN with_p0([logStatement(ps, "ClassDeclaration")
                  EXCEPT !.inAbstractClass = abstract])

-----------------------------------------------------------------------------
(* The declaration dispatcher *)

\* a tsCheckLineTerminator that does not look for a line break: with it a
\* declaration word on a line of its own would start a declaration
tsCheckLineTerminatorNoBreak(ps, next_) ==
    IF next_ THEN Ans(next(ps), TRUE)
    ELSE IF match(ps, "semi") THEN Ans(next(ps), FALSE) ELSE Ans(ps, TRUE)

tsCheckLineTerminator(ps, next_) ==
    IF next_
    THEN IF hasFollowingLineBreak(ps) THEN Ans(ps, FALSE) ELSE Ans(next(ps), TRUE)
    ELSE LET with_t(t) ==
                                          Ans(t.ps, ~t.ans)
         IN with_t(isLineTerminator(ps))

tsParseAbstractDeclaration(ps, start) ==
    IF match(ps, "_class") THEN Invoke("parseClass", <<ps, start, TRUE>>)
    ELSE IF ts_isContextual(ps, "interface")
    THEN IF ~hasFollowingLineBreak(ps)
         THEN Invoke("tsParseInterfaceDeclaration", <<ps, start, FALSE>>)
         ELSE Ok(ps, NoNode)
    ELSE unexpected(ps)

\* the node is NoNode when the method returns undefined
tsParseDeclaration(ps, start, value, next_) ==
    CASE value = "abstract" ->
            LET with_c(c) ==
            IF c.ans /\ (match(c.ps, "_class") \/ tokenIsIdentifier(Cur(c.ps).type))
            THEN Invoke("tsParseAbstractDeclaration", <<c.ps, start>>)
            ELSE Ok(c.ps, NoNode)
            IN with_c(tsCheckLineTerminator(ps, next_))
      [] value = "module" ->
            LET with_c(c) ==
            IF c.ans /\ match(c.ps, "string")
            THEN Invoke("tsParseAmbientExternalModuleDeclaration", <<c.ps, start>>)
            ELSE IF c.ans /\ tokenIsIdentifier(Cur(c.ps).type)
            THEN Invoke("tsParseModuleOrNamespaceDeclaration", <<c.ps, start>>)
            ELSE Ok(c.ps, NoNode)
            IN with_c(tsCheckLineTerminator(ps, next_))
      [] value = "namespace" ->
            LET with_c(c) ==
            IF c.ans /\ tokenIsIdentifier(Cur(c.ps).type)
            THEN Invoke("tsParseModuleOrNamespaceDeclaration", <<c.ps, start>>)
            ELSE Ok(c.ps, NoNode)
            IN with_c(tsCheckLineTerminator(ps, next_))
      [] value = "type" ->
            LET with_c(c) ==
            IF c.ans /\ tokenIsIdentifier(Cur(c.ps).type)
            THEN Invoke("tsParseTypeAliasDeclaration", <<c.ps, start>>)
            ELSE Ok(c.ps, NoNode)
            IN with_c(tsCheckLineTerminator(ps, next_))
      [] OTHER -> Ok(ps, NoNode)

\* the callback tsTryParseDeclare runs in the ambient context.  Its last
\* branch reads `this.state.value`; the parser has no `state`, so the read
\* throws before tsParseDeclaration is called.
tsTryParseDeclareBody(ps, start, starttype) ==
    CASE starttype = "_function" -> Invoke("parseFunctionStatement", <<ps, start, TRUE>>)
      [] starttype = "_class" -> Invoke("parseClass", <<ps, start, FALSE>>)
      [] starttype = "enum" -> Invoke("tsParseEnumDeclaration", <<ps, start, FALSE, TRUE>>)
      [] starttype = "global" -> Invoke("tsParseAmbientExternalModuleDeclaration", <<ps, start>>)
      [] starttype \in {"_const", "_var"} ->
            IF ~match(ps, "_const") \/ TokAt(ps, ps.pos + 1).type # "enum"
            THEN Invoke("parseVarStatement", <<ps, start, TRUE>>)
            ELSE Invoke("tsParseEnumDeclaration", <<next(ps), start, TRUE, TRUE>>)
      [] OTHER ->
            LET with_i(i) ==
                IF ~i.ok \/ i.node # NoNode THEN i
                ELSE IF tokenIsIdentifier(starttype)
                THEN raise(i.ps, i.ps.pos,
                           "TypeError: Cannot read properties of undefined")
                ELSE Ok(i.ps, NoNode)
            IN with_i(IF starttype = "interface"
                     THEN Invoke("tsParseInterfaceDeclaration", <<ps, start, TRUE>>)
                     ELSE Ok(ps, NoNode))

tsTryParseDeclare(ps, start) ==
    LET with_t(t) ==
    IF t.ans THEN Ok(t.ps, NoNode)
    ELSE LET with_starttype(starttype) ==
             tsInAmbientContextFinally(t.ps,
                 Invoke("tsTryParseDeclareBody", <<tsInAmbientContext(t.ps), start, starttype>>))
         IN with_starttype(IF ts_isContextual(t.ps, "let") THEN "_var"
                          ELSE Cur(t.ps).type)
    IN with_t(isLineTerminator(ps))

tsParseExpressionStatement(ps, start, expr) ==
    CASE expr.name = "declare" -> Invoke("tsTryParseDeclare", <<ps, start>>)
      [] expr.name = "global" ->
            IF match(ps, "braceL")
            THEN LET with_body(body) ==
                 IF ~body.ok THEN body
                 ELSE Ok(body.ps, [type |-> "TSModuleDeclaration",
                                   start |-> start, global |-> TRUE,
                                   id |-> expr.name, body |-> body.node])
                 IN with_body(Invoke("tsParseModuleBlock", <<ps>>))
            ELSE Ok(ps, NoNode)
      [] OTHER -> Invoke("tsParseDeclaration", <<ps, start, expr.name, FALSE>>)

\* decl || super.parseExpressionStatement(node, expr)
parseExpressionStatement(ps, start, expr) ==
    LET with_decl(decl) ==
        IF ~decl.ok \/ decl.node # NoNode THEN decl
        ELSE Invoke("superParseExpressionStatement", <<decl.ps, start, expr>>)
    IN with_decl(IF expr.type = "Identifier"
                THEN Invoke("tsParseExpressionStatement", <<ps, start, expr>>)
                ELSE Ok(ps, NoNode))

\* host parseStatement(null, true): the statement kinds by their first token;
\* a statement that starts with an expression goes through the plugin's
\* parseExpressionStatement
parseStatement(ps) ==
    CASE match(ps, "_function") -> Invoke("parseFunctionStatement", <<ps, ps.pos, FALSE>>)
      [] match(ps, "_class") -> Invoke("parseClass", <<ps, ps.pos, FALSE>>)
      [] match(ps, "_var") \/ match(ps, "_const") ->
            Invoke("parseVarStatement", <<ps, ps.pos, FALSE>>)
      [] OTHER ->
            LET with_expr(expr) ==
            IF ~expr.ok THEN expr
            ELSE Invoke("parseExpressionStatement", <<expr.ps, ps.pos, expr.node>>)
            IN with_expr(Invoke("parseExpression", <<logStatement(ps, "ExpressionStatement")>>))

-----------------------------------------------------------------------------
(* Speculation and scoped contexts over the text: the speculative checks    *)
(* and the callback of tsParseTypeArguments as the tokens they make the     *)
(* tokenizer read.  An answer is [ans, lx]; a raise is in lx.err.           *)

\* a high surrogate (0xd800 - 0xdbff), as one character of a text
HighSurrogate == "\\ud83d"

\* host isIdentifierChar(code) on the characters of the texts; the NaN that
\* charCodeAt gives past the end of the input is no identifier character
isIdentifierChar(ch) == ch \in {"a", "i", "n", "1", "$", "_"}

\* String.prototype.slice(start, end): a negative index counts from the end,
\* and both are clipped to the string
slice(text, start, end) ==
    LET clip(i) == IF i < 0 THEN (IF Len(text) + i < 0 THEN 0 ELSE Len(text) + i)
                   ELSE IF i > Len(text) THEN Len(text) ELSE i
    IN IF clip(start) >= clip(end) THEN <<>>
       ELSE SubSeq(text, clip(start) + 1, clip(end))

\* an isUnparsedContextual without the test for a high surrogate
isUnparsedContextualNoSurrogate(lx, nameStart, name) ==
    /\ slice(lx.text, nameStart, nameStart + Len(name)) = name
    /\ ~isIdentifierChar(CharAt(lx, nameStart + Len(name)))

isUnparsedContextual(lx, nameStart, name) ==
    LET nameEnd == nameStart + Len(name)
    IN IF slice(lx.text, nameStart, nameEnd) = name
       THEN ~(\/ isIdentifierChar(CharAt(lx, nameEnd))
              \/ CharAt(lx, nameEnd) = HighSurrogate)
       ELSE FALSE

\* hasPrecedingLineBreak(): a line break between the last token and this one
hasPrecedingLineBreakOfTokenizer(lx) ==
    \E p \in lx.lastTokEnd..(lx.start - 1) : isNewLine(CharAt(lx, p))

tsTokenCanFollowModifierOfTokenizer(lx) ==
    /\ \/ lx.type \in {"bracketL", "braceL", "star", "ellipsis", "privateId"}
       \/ tokenIsLiteralPropertyName(lx.type)
    /\ ~hasPrecedingLineBreakOfTokenizer(lx)

tsNextTokenCanFollowModifierOfTokenizer(lx) ==
    LET with_n(n) ==
        [ans |-> n.err = NoErr /\ tsTokenCanFollowModifierOfTokenizer(n),
         lx |-> n]
    IN with_n(nextOfTokenizer(lx))

\* tsIsUnambiguouslyStartOfFunctionType() at `(`; of tsSkipParameterStart
\* the identifier and `this` cases (the texts hold no `{` and no `[`)
tsIsUnambiguouslyStartOfFunctionTypeOfTokenizer(lx) ==
    LET afterParam(n2) ==
            IF n2.err # NoErr THEN [ans |-> FALSE, lx |-> n2]
            ELSE IF n2.type \in {"colon", "comma", "question", "eq"}
            THEN [ans |-> TRUE, lx |-> n2]
            ELSE IF n2.type = "parenR"
            THEN LET with_n3(n3) ==
                     [ans |-> n3.err = NoErr /\ n3.type = "arrow", lx |-> n3]
                 IN with_n3(nextOfTokenizer(n2))
            ELSE [ans |-> FALSE, lx |-> n2]
        with_n1(n1) ==
            IF n1.err # NoErr THEN [ans |-> FALSE, lx |-> n1]
            ELSE IF n1.type \in {"parenR", "ellipsis"}
            THEN [ans |-> TRUE, lx |-> n1]
            ELSE IF tokenIsIdentifier(n1.type) \/ n1.type = "_this"
            THEN afterParam(nextOfTokenizer(n1))
            ELSE [ans |-> FALSE, lx |-> n1]
    IN with_n1(nextOfTokenizer(lx))

\* tsTryParse(f): keep what f left when it answers true, reinstall the
\* snapshot when it answers false; a raise inside f is not caught
tsTryParseOfTokenizer(lx, r) ==
    IF r.lx.err # NoErr \/ r.ans THEN r.lx
    ELSE setLookaheadState(r.lx, getCurLookaheadState(lx))

\* tsLookAhead(f): reinstall the snapshot whatever f answers
tsLookAheadOfTokenizer(lx, r) ==
    IF r.lx.err # NoErr THEN r.lx
    ELSE setLookaheadState(r.lx, getCurLookaheadState(lx))

\* tsInNoContext(cb): this.context = [oldContext[0]] before the callback
tsInNoContext(lx) == NewContext(lx, <<ContextStack(lx)[1]>>)

\* a restore that runs only when the callback returns
tsInNoContextOnReturn(old, r) ==
    IF r.err = NoErr THEN [r EXCEPT !.context = old.context] ELSE r

\* tsInNoContext(cb): this.context = oldContext in the `finally`
tsInNoContextFinally(old, r) == [r EXCEPT !.context = old.context]

\* the elements of a type argument list as the tokens read: up to the
\* closing `>`, or to the end of the text, where the list raises
RECURSIVE tsParseDelimitedListOfTokenizer(_)
tsParseDelimitedListOfTokenizer(lx) ==
    IF lx.err # NoErr THEN lx
    ELSE IF lx.type = "relational" /\ lx.value = <<">">> THEN lx
    ELSE IF lx.type = "eof"
    THEN raiseInTokenizer(lx, lx.start, "Unexpected token")
    ELSE tsParseDelimitedListOfTokenizer(nextOfTokenizer(lx))

\* the callback tsParseTypeArguments hands to tsInNoContext: next(), then
\* the list
tsParseTypeArgumentsCallback(lx) ==
    tsParseDelimitedListOfTokenizer(nextOfTokenizer(lx))

-----------------------------------------------------------------------------
(* Method dispatch *)

\* this.method(args): a call of a method of the parser by name
Invoke(method, args) ==
    CASE method = "parseIdent" ->
            parseIdent(args[1], args[2])
      [] method = "parseBindingListFrom" ->
            parseBindingListFrom(args[1], args[2], args[3])
      [] method = "parseObjFrom" ->
            parseObjFrom(args[1], args[2])
      [] method = "parseObj" ->
            parseObj(args[1])
      [] method = "tsSkipParameterStart" ->
            tsSkipParameterStart(args[1])
      [] method = "tsIsUnambiguouslyStartOfFunctionType" ->
            tsIsUnambiguouslyStartOfFunctionType(args[1])
      [] method = "tsIsStartOfFunctionType" ->
            tsIsStartOfFunctionType(args[1])
      [] method = "tsParseTypePredicateAsserts" ->
            tsParseTypePredicateAsserts(args[1])
      [] method = "tsParseTypePredicatePrefix" ->
            tsParseTypePredicatePrefix(args[1])
      [] method = "tsParseThisTypeOrThisTypePredicate" ->
            tsParseThisTypeOrThisTypePredicate(args[1])
      [] method = "tsParseTypeAnnotation" ->
            tsParseTypeAnnotation(args[1], args[2])
      [] method = "tsParseTypeOrTypePredicateAnnotation" ->
            tsParseTypeOrTypePredicateAnnotation(args[1], args[2])
      [] method = "tsParseBindingListForSignature" ->
            tsParseBindingListForSignature(args[1])
      [] method = "tsFillSignature" ->
            tsFillSignature(args[1], args[2])
      [] method = "tsParseFunctionOrConstructorType" ->
            tsParseFunctionOrConstructorType(args[1], args[2], args[3])
      [] method = "tsParseNonConditionalType" ->
            tsParseNonConditionalType(args[1])
      [] method = "tsParseConditionalOperand" ->
            tsParseConditionalOperand(args[1], args[2])
      [] method = "tsParseType" ->
            tsParseType(args[1])
      [] method = "tsParseUnionOrIntersectionType" ->
            tsParseUnionOrIntersectionType(args[1], args[2])
      [] method = "tsParseIntersectionTypeOrHigher" ->
            tsParseIntersectionTypeOrHigher(args[1])
      [] method = "tsParseUnionTypeOrHigher" ->
            tsParseUnionTypeOrHigher(args[1])
      [] method = "tsParseTypeOperator" ->
            tsParseTypeOperator(args[1])
      [] method = "tsParseConstraintForInferType" ->
            tsParseConstraintForInferType(args[1])
      [] method = "tsParseInferType" ->
            tsParseInferType(args[1])
      [] method = "tsParseTypeOperatorOrHigher" ->
            tsParseTypeOperatorOrHigher(args[1])
      [] method = "tsParseArrayTypeLoop" ->
            tsParseArrayTypeLoop(args[1], args[2])
      [] method = "tsParseArrayTypeOrHigher" ->
            tsParseArrayTypeOrHigher(args[1])
      [] method = "tsParseListElement" ->
            tsParseListElement(args[1], args[2])
      [] method = "tsParseDelimitedListWorker" ->
            tsParseDelimitedListWorker(args[1], args[2], args[3], args[4], args[5])
      [] method = "tsParseDelimitedList" ->
            tsParseDelimitedList(args[1], args[2], args[3])
      [] method = "tsParseBracketedList" ->
            tsParseBracketedList(args[1], args[2], args[3], args[4], args[5])
      [] method = "tsParseTupleElementType" ->
            tsParseTupleElementType(args[1])
      [] method = "tsCheckTupleElements" ->
            tsCheckTupleElements(args[1], args[2], args[3], args[4], args[5])
      [] method = "tsParseTupleType" ->
            tsParseTupleType(args[1])
      [] method = "tsIsStartOfMappedType" ->
            tsIsStartOfMappedType(args[1])
      [] method = "tsLookAheadIsStartOfMappedType" ->
            tsLookAheadIsStartOfMappedType(args[1])
      [] method = "tsExpectThenParseType" ->
            tsExpectThenParseType(args[1], args[2])
      [] method = "tsNextThenParseType" ->
            tsNextThenParseType(args[1])
      [] method = "tsEatThenParseType" ->
            tsEatThenParseType(args[1], args[2])
      [] method = "tsTryParseType" ->
            tsTryParseType(args[1])
      [] method = "tsTryParseTypeAnnotation" ->
            tsTryParseTypeAnnotation(args[1])
      [] method = "tsParseMappedTypeParameter" ->
            tsParseMappedTypeParameter(args[1])
      [] method = "tsParseMappedType" ->
            tsParseMappedType(args[1])
      [] method = "tsNextTokenCanFollowModifier" ->
            tsNextTokenCanFollowModifier(args[1])
      [] method = "tsParseModifier" ->
            tsParseModifier(args[1], args[2], args[3])
      [] method = "tsParseModifiers" ->
            tsParseModifiers(args[1], args[2], args[3], args[4], args[5], args[6])
      [] method = "tsParseSignatureMember" ->
            tsParseSignatureMember(args[1], args[2], args[3])
      [] method = "tsParsePropertyOrMethodSignature" ->
            tsParsePropertyOrMethodSignature(args[1], args[2], args[3])
      [] method = "tsTryParseIndexSignature" ->
            tsTryParseIndexSignature(args[1], args[2])
      [] method = "parsePropertyName" ->
            parsePropertyName(args[1])
      [] method = "tsParseTypeMember" ->
            tsParseTypeMember(args[1])
      [] method = "tsParseList" ->
            tsParseList(args[1], args[2], args[3])
      [] method = "tsParseObjectTypeMembers" ->
            tsParseObjectTypeMembers(args[1])
      [] method = "tsParseTypeLiteral" ->
            tsParseTypeLiteral(args[1])
      [] method = "tsParseNoneModifiers" ->
            tsParseNoneModifiers(args[1])
      [] method = "tsParseInOutModifiers" ->
            tsParseInOutModifiers(args[1])
      [] method = "tsParseTypeParameter" ->
            tsParseTypeParameter(args[1], args[2])
      [] method = "tsParseTypeParameters" ->
            tsParseTypeParameters(args[1], args[2])
      [] method = "tsTryParseTypeParameters" ->
            tsTryParseTypeParameters(args[1], args[2])
      [] method = "tsParseEntityNameLoop" ->
            tsParseEntityNameLoop(args[1], args[2], args[3])
      [] method = "tsParseEntityName" ->
            tsParseEntityName(args[1], args[2])
      [] method = "tsParseTypeArguments" ->
            tsParseTypeArguments(args[1])
      [] method = "tsParseTypeReference" ->
            tsParseTypeReference(args[1])
      [] method = "tsParseParenthesizedType" ->
            tsParseParenthesizedType(args[1])
      [] method = "tsParseLiteralTypeNode" ->
            tsParseLiteralTypeNode(args[1])
      [] method = "tsParseTemplateLiteralType" ->
            tsParseTemplateLiteralType(args[1])
      [] method = "tsParseImportType" ->
            tsParseImportType(args[1])
      [] method = "tsParseTypeQuery" ->
            tsParseTypeQuery(args[1])
      [] method = "tsParseNonArrayType" ->
            tsParseNonArrayType(args[1])
      [] method = "parseMaybeAssign" ->
            parseMaybeAssign(args[1])
      [] method = "tsParseEnumMember" ->
            tsParseEnumMember(args[1])
      [] method = "tsParseEnumDeclaration" ->
            tsParseEnumDeclaration(args[1], args[2], args[3], args[4])
      [] method = "tsParseHeritageClauseElement" ->
            tsParseHeritageClauseElement(args[1])
      [] method = "tsParseHeritageClause" ->
            tsParseHeritageClause(args[1], args[2])
      [] method = "tsParseInterfaceDeclaration" ->
            tsParseInterfaceDeclaration(args[1], args[2], args[3])
      [] method = "parseExpression" ->
            parseExpression(args[1])
      [] method = "superParseExpressionStatement" ->
            superParseExpressionStatement(args[1], args[2], args[3])
      [] method = "parseFunctionStatement" ->
            parseFunctionStatement(args[1], args[2], args[3])
      [] method = "parseVarStatement" ->
            parseVarStatement(args[1], args[2], args[3])
      [] method = "tsParseModuleBlockBody" ->
            tsParseModuleBlockBody(args[1], args[2])
      [] method = "tsParseModuleBlock" ->
            tsParseModuleBlock(args[1])
      [] method = "tsParseAmbientExternalModuleDeclaration" ->
            tsParseAmbientExternalModuleDeclaration(args[1], args[2])
      [] method = "tsParseModuleOrNamespaceDeclaration" ->
            tsParseModuleOrNamespaceDeclaration(args[1], args[2])
      [] method = "tsParseTypeAliasDeclaration" ->
            tsParseTypeAliasDeclaration(args[1], args[2])
      [] method = "superParseMethod" ->
            superParseMethod(args[1])
      [] method = "parseMethod" ->
            parseMethod(args[1])
      [] method = "parseClassMethod" ->
            parseClassMethod(args[1], args[2])
      [] method = "parseClassField" ->
            parseClassField(args[1], args[2])
      [] method = "parseClassElement" ->
            parseClassElement(args[1])
      [] method = "parseClassBody" ->
            parseClassBody(args[1], args[2], args[3])
      [] method = "originParseClass" ->
            originParseClass(args[1], args[2], args[3])
      [] method = "parseClass" ->
            parseClass(args[1], args[2], args[3])
      [] method = "tsParseAbstractDeclaration" ->
            tsParseAbstractDeclaration(args[1], args[2])
      [] method = "tsParseDeclaration" ->
            tsParseDeclaration(args[1], args[2], args[3], args[4])
      [] method = "tsTryParseDeclareBody" ->
            tsTryParseDeclareBody(args[1], args[2], args[3])
      [] method = "tsTryParseDeclare" ->
            tsTryParseDeclare(args[1], args[2])
      [] method = "tsParseExpressionStatement" ->
            tsParseExpressionStatement(args[1], args[2], args[3])
      [] method = "parseExpressionStatement" ->
            parseExpressionStatement(args[1], args[2], args[3])
      [] method = "parseStatement" ->
            parseStatement(args[1])

-----------------------------------------------------------------------------
(* The parser object as the state of the machine *)

\* the parser the variables describe
Parser ==
    [input |-> input, pos |-> pos, lastTokEnd |-> lastTokEnd,
     inType |-> inType, isAmbientContext |-> isAmbientContext,
     inDisallowConditionalTypesContext |-> inDisallowConditionalTypesContext,
     inAbstractClass |-> inAbstractClass,
     stmtLog |-> stmtLog, diagnostics |-> diagnostics]

\* the variables take the fields of ps; one more operation has run
Install(ps) ==
    /\ dts' = dts
    /\ steps' = steps + 1
    /\ input' = ps.input
    /\ pos' = ps.pos
    /\ lastTokEnd' = ps.lastTokEnd
    /\ inType' = ps.inType
    /\ isAmbientContext' = ps.isAmbientContext
    /\ inDisallowConditionalTypesContext' = ps.inDisallowConditionalTypesContext
    /\ inAbstractClass' = ps.inAbstractClass
    /\ stmtLog' = ps.stmtLog
    /\ diagnostics' = ps.diagnostics
    /\ lexer' = lexer

NoResult == [ok |-> TRUE, node |-> NoNode, err |-> NoErr]

\* new Parser(options, input) followed by the first nextToken(); parse() sets
\* isAmbientContext when the plugin was made with dts
InitWith(inputs) ==
    /\ dts \in BOOLEAN
    /\ input \in inputs
    /\ pos = 1
    /\ lastTokEnd = 0
    /\ inType = FALSE
    /\ isAmbientContext = dts
    /\ steps = 0
    /\ inDisallowConditionalTypesContext = FALSE
    /\ inAbstractClass = FALSE
    /\ stmtLog = <<>>
    /\ diagnostics = <<>>
    /\ lexer = NewTokenizer(<<>>, FALSE, FALSE, <<"b_stat">>)
    /\ pc = "ready"
    /\ op = "none"
    /\ result = NoResult

\* one turn of the host's top-level loop: parseStatement(null, true).  A
\* raise ends the parse.
ParseStatement ==
    /\ pc \in {"ready", "parsed"}
    /\ ~match(Parser, "eof")
    /\ LET with_r(r) ==
       /\ Install(r.ps)
       /\ pc' = IF r.ok THEN "parsed" ELSE "failed"
       /\ op' = "parseStatement"
       /\ result' = [ok |-> r.ok, node |-> r.node, err |-> r.err]
       IN with_r(Invoke("parseStatement", <<Parser>>))

\* tsParseTypeAnnotation(false) at the current token
ParseTypeAnnotation ==
    /\ pc \in {"ready", "probed"}
    /\ LET with_r(r) ==
       /\ Install(r.ps)
       /\ pc' = IF r.ok THEN "parsed" ELSE "failed"
       /\ op' = "tsParseTypeAnnotation"
       /\ result' = [ok |-> r.ok, node |-> r.node, err |-> r.err]
       IN with_r(Invoke("tsParseTypeAnnotation", <<Parser, FALSE>>))

\* tsLookAhead(tsIsStartOfMappedType), as tsParseNonArrayType calls it at `{`
LookAheadStartOfMappedType ==
    /\ pc = "ready"
    /\ match(Parser, "braceL")
    /\ LET with_r(r) ==
       /\ Install(r.ps)
       /\ pc' = "probed"
       /\ op' = "tsIsStartOfMappedType"
       /\ result' = [ans |-> r.ans]
       IN with_r(Invoke("tsLookAheadIsStartOfMappedType", <<Parser>>))

\* tsIsStartOfFunctionType(), as tsParseNonConditionalType calls it first
IsStartOfFunctionType ==
    /\ pc = "ready"
    /\ LET with_r(r) ==
       /\ Install(r.ps)
       /\ pc' = "probed"
       /\ op' = "tsIsStartOfFunctionType"
       /\ result' = [ans |-> r.ans]
       IN with_r(Invoke("tsIsStartOfFunctionType", <<Parser>>))

\* the arguments tsParseModifiers is called with: by tsParseTypeMember, by
\* tsParseInOutModifiers, and by a caller that allows every modifier the
\* ordering and exclusivity rules name
ModifierCallers == {"tsParseTypeMember", "tsParseInOutModifiers", "allowAll"}

ModifierArguments(caller) ==
    CASE caller = "tsParseTypeMember" ->
            [allowedModifiers |-> {"readonly"},
             disallowedModifiers |-> {"declare", "abstract", "private",
                                      "protected", "public", "static",
                                      "override"},
             errorTemplate |-> "InvalidModifierOnTypeMember"]
      [] caller = "tsParseInOutModifiers" ->
            [allowedModifiers |-> {"in", "out"},
             disallowedModifiers |-> {"public", "private", "protected",
                                      "readonly", "declare", "abstract",
                                      "override"},
             errorTemplate |-> "InvalidModifierOnTypeParameter"]
      [] caller = "allowAll" ->
            [allowedModifiers |-> {"public", "private", "protected",
                                   "override", "static", "readonly",
                                   "declare", "abstract", "in", "out"},
             disallowedModifiers |-> {},
             errorTemplate |-> "InvalidModifierOnTypeMember"]

\* tsParseModifiers({modified: {}, ...}) at the current token; the node of
\* the result is the Modifier Set it leaves on `modified`
ParseModifiers ==
    /\ pc = "ready"
    /\ \E caller \in ModifierCallers :
       LET with_r(r) ==
           /\ Install(r.ps)
           /\ pc' = IF r.ok THEN "parsed" ELSE "failed"
           /\ op' = "tsParseModifiers"
           /\ result' = [ok |-> r.ok, node |-> r.node, err |-> r.err,
                         caller |-> caller]
       IN with_r(Invoke("tsParseModifiers",
              <<Parser, NoModifiers,
                ModifierArguments(caller).allowedModifiers,
                ModifierArguments(caller).disallowedModifiers, FALSE,
                ModifierArguments(caller).errorTemplate>>))

\* tsParseModifier(allowedModifiers.concat(disallowedModifiers)) at the
\* current token, as the loop of tsParseModifiers calls it
ParseModifier ==
    /\ pc = "ready"
    /\ \E caller \in ModifierCallers :
       LET with_r(r) ==
           /\ Install(r.ps)
           /\ pc' = "probed"
           /\ op' = "tsParseModifier"
           /\ result' = [ans |-> r.ans, caller |-> caller]
       IN with_r(Invoke("tsParseModifier",
              <<Parser,
                ModifierArguments(caller).allowedModifiers
                    \cup ModifierArguments(caller).disallowedModifiers,
                FALSE>>))

\* the parser object as the tokenizer sees it: its own fields and this.inType
Tokenizer ==
    [text |-> lexer.text, locations |-> lexer.locations,
     onComment |-> lexer.onComment, pos |-> lexer.pos, type |-> lexer.type,
     value |-> lexer.value, start |-> lexer.start, end |-> lexer.end,
     startLoc |-> lexer.startLoc, endLoc |-> lexer.endLoc,
     lastTokStart |-> lexer.lastTokStart, lastTokEnd |-> lexer.lastTokEnd,
     lastTokStartLoc |-> lexer.lastTokStartLoc,
     lastTokEndLoc |-> lexer.lastTokEndLoc, curLine |-> lexer.curLine,
     lineStart |-> lexer.lineStart, context |-> lexer.context,
     arrays |-> lexer.arrays, isLookahead |-> lexer.isLookahead,
     comments |-> lexer.comments, contextUpdates |-> lexer.contextUpdates,
     err |-> lexer.err, inType |-> inType]

InstallTokenizer(lx) ==
    /\ lexer' =
           [text |-> lx.text, locations |-> lx.locations,
            onComment |-> lx.onComment, pos |-> lx.pos, type |-> lx.type,
            value |-> lx.value, start |-> lx.start, end |-> lx.end,
            startLoc |-> lx.startLoc, endLoc |-> lx.endLoc,
            lastTokStart |-> lx.lastTokStart, lastTokEnd |-> lx.lastTokEnd,
            lastTokStartLoc |-> lx.lastTokStartLoc,
            lastTokEndLoc |-> lx.lastTokEndLoc, curLine |-> lx.curLine,
            lineStart |-> lx.lineStart, context |-> lx.context,
            arrays |-> lx.arrays, isLookahead |-> lx.isLookahead,
            comments |-> lx.comments, contextUpdates |-> lx.contextUpdates,
            err |-> lx.err]
    /\ steps' = steps + 1
    /\ pc' = IF lx.err = NoErr THEN "scanned" ELSE "failed"
    /\ UNCHANGED <<dts, input, pos, lastTokEnd, inType, isAmbientContext,
                   inDisallowConditionalTypesContext, inAbstractClass,
                   stmtLog, diagnostics>>

\* there is text left, or the last token read is not the end of the input
MoreTokens == lexer.pos < Len(lexer.text) \/ lexer.type # "eof"

\* host next(): the tokenizer moves to the next token
NextToken ==
    /\ pc \in {"ready", "scanned"}
    /\ MoreTokens
    /\ InstallTokenizer(nextOfTokenizer(Tokenizer))
    /\ op' = "next"
    /\ result' = [ok |-> TRUE]

\* lookahead(): the next token is read and the tokenizer put back
Lookahead ==
    /\ pc \in {"ready", "scanned"}
    /\ MoreTokens
    /\ op # "lookahead"
    /\ InstallTokenizer(lookahead(Tokenizer).lx)
    /\ op' = "lookahead"
    /\ result' = [state |-> lookahead(Tokenizer).state]

\* the lists the plugin reads with tsParseDelimitedList: the kind and the
\* element parser of tsParseTupleType, tsParseEnumDeclaration and
\* tsParseTypeParameters; a tuple type is read inside tsInType
ListCallers ==
    {[kind |-> "TupleElementTypes", parseElement |-> "tsParseTupleElementType",
      inType |-> TRUE],
     [kind |-> "EnumMembers", parseElement |-> "tsParseEnumMember",
      inType |-> FALSE],
     [kind |-> "TypeParametersOrArguments",
      parseElement |-> "tsParseTypeParameterInOut", inType |-> FALSE]}

\* tsParseDelimitedList(kind, parseElement, refTrailingCommaPos) just after
\* the opening bracket; the node of the result holds the elements and the
\* value left in refTrailingCommaPos
ParseDelimitedList ==
    /\ pc = "ready"
    /\ \E caller \in ListCallers :
       LET with_r(r) ==
           /\ Install(r.ps)
           /\ pc' = IF r.ok THEN "parsed" ELSE "failed"
           /\ op' = "tsParseDelimitedList"
           /\ result' = [ok |-> r.ok, node |-> r.node, err |-> r.err,
                         kind |-> caller.kind]
       IN with_r(tsInTypeFinally(Parser,
              Invoke("tsParseDelimitedList",
                  <<IF caller.inType THEN tsInType(Parser) ELSE Parser,
                    caller.kind, caller.parseElement>>)))

MaxAttempts == 2        \* times tsTryParse is tried on one text

\* the functions the plugin hands to tsTryParse, and whether the call site
\* is inside tsInType
SpeculativeCalls ==
    {[f |-> "tsNextTokenCanFollowModifier", inType |-> FALSE],
     [f |-> "tsParseTypePredicateAsserts", inType |-> TRUE],
     [f |-> "tsParseTypePredicatePrefix", inType |-> TRUE],
     [f |-> "tsParseConstraintForInferType", inType |-> TRUE]}

\* the first two return a boolean, the others a node or undefined
ReturnsBoolean(f) ==
    f \in {"tsNextTokenCanFollowModifier", "tsParseTypePredicateAsserts"}

\* tsTryParse(f): [ok, ps, node, err], the node being what tsTryParse
\* returns (undefined for no match)
tsTryParse(ps, f) ==
    IF ReturnsBoolean(f)
    THEN LET with_t(t) ==
             Ok(t.ps, IF t.ans THEN [type |-> "true"] ELSE NoNode)
         IN with_t(tsTryParseBool(ps, Invoke(f, <<ps>>)))
    ELSE tsTryParseNode(ps, Invoke(f, <<ps>>))

\* the parser at a call site of tsTryParse
AtCallSite(ps, call) == IF call.inType THEN tsInType(ps) ELSE ps

\* tsTryParse(f) at the current token; after "no match" the caller may try
\* the same f again
TryParse ==
    /\ pc \in {"ready", "retry"}
    /\ steps < MaxAttempts
    /\ \E call \in SpeculativeCalls :
       /\ pc = "retry" => call.f = result.f
       /\ call.f = "tsParseTypePredicatePrefix" => tsIsIdentifier(Parser)
       /\ LET with_r(r) ==
              /\ Install(r.ps)
              /\ pc' = IF ~r.ok THEN "failed"
                       ELSE IF r.node = NoNode THEN "retry" ELSE "parsed"
              /\ op' = "tsTryParse"
              /\ result' = [ok |-> r.ok, node |-> r.node, err |-> r.err,
                            f |-> call.f]
          IN with_r(tsInTypeFinally(Parser,
                        tsTryParse(AtCallSite(Parser, call), call.f)))

\* the three scoped flags of a parser
Flags(ps) ==
    [inType |-> ps.inType, isAmbientContext |-> ps.isAmbientContext,
     inDisallowConditionalTypesContext |->
         ps.inDisallowConditionalTypesContext]

\* what a scoped helper leaves: the callback's outcome and the flags the
\* caller had before the call
Scoped(helper, cb, r) ==
    /\ Install(r.ps)
    /\ pc' = IF r.ok THEN "parsed" ELSE "failed"
    /\ op' = helper
    /\ result' = [ok |-> r.ok, node |-> r.node, err |-> r.err, cb |-> cb,
                  before |-> Flags(Parser)]

\* tsInType(cb), for the callbacks of tsParseTypeAnnotation and
\* tsParseInterfaceDeclaration
InType ==
    /\ pc = "ready"
    /\ \E cb \in {"tsParseType", "tsParseObjectTypeMembers"} :
          Scoped("tsInType", cb,
                 tsInTypeFinally(Parser, Invoke(cb, <<tsInType(Parser)>>)))

\* tsInAmbientContext(cb), for the callback of tsTryParseDeclare
InAmbientContext ==
    /\ pc = "ready"
    /\ Scoped("tsInAmbientContext", "tsTryParseDeclareBody",
              tsInAmbientContextFinally(Parser,
                  Invoke("tsTryParseDeclareBody",
                         <<tsInAmbientContext(Parser), pos,
                           IF ts_isContextual(Parser, "let") THEN "_var"
                           ELSE Cur(Parser).type>>)))

\* tsInDisallowConditionalTypesContext(cb) and
\* tsInAllowConditionalTypesContext(cb): one body but for the value the
\* flag gets, for the callbacks of tsParseConstraintForInferType (disallow)
\* and of tsParseType and tsParseTypeOperatorOrHigher (allow)
ConditionalTypesCalls ==
    {<<"tsInDisallowConditionalTypesContext", "tsParseType">>,
     <<"tsInAllowConditionalTypesContext", "tsParseType">>,
     <<"tsInAllowConditionalTypesContext", "tsParseArrayTypeOrHigher">>}

InConditionalTypesContext ==
    /\ pc = "ready"
    /\ \E call \in ConditionalTypesCalls :
          Scoped(call[1], call[2],
                 tsInDisallowConditionalTypesContextFinally(Parser,
                     Invoke(call[2],
                         <<IF call[1] = "tsInDisallowConditionalTypesContext"
                           THEN tsInDisallowConditionalTypesContext(Parser)
                           ELSE tsInAllowConditionalTypesContext(Parser)>>)))

\* a parser at the first token in the middle of a parse: the scoped flags
\* have any value
InitInScope(inputs) ==
    /\ dts \in BOOLEAN
    /\ input \in inputs
    /\ pos = 1
    /\ lastTokEnd = 0
    /\ inType \in BOOLEAN
    /\ isAmbientContext = dts
    /\ steps = 0
    /\ inDisallowConditionalTypesContext \in BOOLEAN
    /\ inAbstractClass = FALSE
    /\ stmtLog = <<>>
    /\ diagnostics = <<>>
    /\ lexer = NewTokenizer(<<>>, FALSE, FALSE, <<"b_stat">>)
    /\ pc = "ready"
    /\ op = "none"
    /\ result = NoResult

\* tsTryParse(tsNextTokenCanFollowModifier), as tsParseModifier calls it at
\* a word
TryParseModifierFollower ==
    /\ pc = "scanned"
    /\ op = "next"
    /\ lexer.type = "name"
    /\ LET with_r(r) ==
           /\ InstallTokenizer(tsTryParseOfTokenizer(Tokenizer, r))
           /\ op' = "tsTryParse"
           /\ result' = [ok |-> r.lx.err = NoErr, ans |-> r.ans]
       IN with_r(tsNextTokenCanFollowModifierOfTokenizer(Tokenizer))

\* tsLookAhead(tsIsUnambiguouslyStartOfFunctionType), as
\* tsIsStartOfFunctionType calls it at `(`
LookAheadFunctionType ==
    /\ pc = "scanned"
    /\ op = "next"
    /\ lexer.type = "parenL"
    /\ LET with_r(r) ==
           /\ InstallTokenizer(tsLookAheadOfTokenizer(Tokenizer, r))
           /\ op' = "tsLookAhead"
           /\ result' = [ok |-> r.lx.err = NoErr, ans |-> r.ans]
       IN with_r(tsIsUnambiguouslyStartOfFunctionTypeOfTokenizer(Tokenizer))

\* tsInType(() => tsInNoContext(cb)), as tsParseTypeArguments calls it at
\* `<`; the result holds the stack the callback started with and the one it
\* left
InNoContext ==
    /\ pc = "scanned"
    /\ op = "next"
    /\ lexer.type = "relational"
    /\ lexer.value = <<"<">>
    /\ LET with_r(entered, r) ==
           /\ InstallTokenizer(Collect(tsInNoContextFinally(Tokenizer, r),
                                       Len(lexer.arrays)))
           /\ op' = "tsInNoContext"
           /\ result' = [ok |-> r.err = NoErr,
                         entered |-> ContextStack(entered),
                         left |-> ContextStack(r)]
       IN with_r(tsInNoContext(Tokenizer),
                 tsParseTypeArgumentsCallback(
                     [tsInNoContext(Tokenizer) EXCEPT !.inType = TRUE]))

MaxEats == 3            \* calls of eatContextual on one input

\* the names eatContextual is called with: soft keywords, and a name outside
\* the vocabulary
EatNames == {"as", "readonly", "declare", "foo"}

\* eatContextual(name) at the current token, called with the string `name`
\* or with the token type tsTokenType[name]
EatContextual ==
    /\ pc \in {"ready", "parsed"}
    /\ steps < MaxEats
    /\ \E name \in EatNames, asTokenType \in BOOLEAN :
       /\ asTokenType => name \in tsTokenType
       /\ LET with_r(r) ==
              /\ Install(r.ps)
              /\ pc' = "parsed"
              /\ op' = "eatContextual"
              /\ result' = [ans |-> r.ans, name |-> name,
                            asTokenType |-> asTokenType, at |-> pos]
          IN with_r(IF asTokenType THEN eatContextualTokenType(Parser, name)
                    ELSE eatContextual(Parser, name))

\* the names looked for in the raw text
UnparsedNames == {<<"i", "n">>, <<"i">>}

\* isUnparsedContextual(nameStart, name) at any offset, before and after
\* tokens are read
IsUnparsedContextual ==
    /\ pc \in {"ready", "scanned"}
    /\ \E nameStart \in -1..(Len(lexer.text) + 1), name \in UnparsedNames :
       /\ result' = [ans |-> isUnparsedContextual(Tokenizer, nameStart, name),
                     nameStart |-> nameStart, name |-> name]
       /\ op' = "isUnparsedContextual"
       /\ UNCHANGED <<dts, input, pos, lastTokEnd, inType, isAmbientContext,
                      inDisallowConditionalTypesContext, inAbstractClass,
                      stmtLog, diagnostics, lexer, pc, steps>>

\* tsParseDeclaration(node, value, next) at a leading word: with next false
\* the dispatcher has read the word as an expression, with next true (the
\* export path) the word is the current token.  The result holds the
\* position the call started at.
ParseDeclaration ==
    /\ pc = "ready"
    /\ tokenIsIdentifier(Cur(Parser).type)
    /\ \E next_ \in BOOLEAN :
       LET with_r(before, r) ==
           /\ Install(r.ps)
           /\ pc' = IF r.ok THEN "parsed" ELSE "failed"
           /\ op' = "tsParseDeclaration"
           /\ result' = [ok |-> r.ok, node |-> r.node, err |-> r.err,
                         next |-> next_, before |-> before.pos]
       IN with_r(IF next_ THEN Parser ELSE next(Parser),
                 Invoke("tsParseDeclaration",
                        <<IF next_ THEN Parser ELSE next(Parser), pos,
                          Cur(Parser).value, next_>>))

\* tsTryParseDeclare(node) after the dispatcher has read `declare`
TryParseDeclare ==
    /\ pc = "ready"
    /\ Cur(Parser).type = "declare"
    /\ LET with_r(r) ==
           /\ Install(r.ps)
           /\ pc' = IF r.ok THEN "parsed" ELSE "failed"
           /\ op' = "tsTryParseDeclare"
           /\ result' = [ok |-> r.ok, node |-> r.node, err |-> r.err,
                         next |-> FALSE, before |-> pos + 1]
       IN with_r(Invoke("tsTryParseDeclare", <<next(Parser), pos>>))

-----------------------------------------------------------------------------
(* Inputs: the token sequences the parser is started on *)

MaxCondDepth == 2       \* nesting depth of the conditional types tried
MaxProbeLen == 3        \* tokens tried after `{` [+|-] [readonly]
MaxFollowLen == 2       \* tokens tried after `(` and a parameter start
MaxTupleLen == 3        \* elements of the tuples tried
MaxClassMembers == 3    \* members of the classes tried
MaxModifiers == 3       \* modifier words tried in a row
MaxOperatorChars == 4   \* characters of the operator texts tried
MaxCommentUnits == 3    \* words, blanks and comments of the comment texts tried
MaxListTokens == 5      \* elements and commas of the lists tried
MaxSpeculationLen == 3  \* tokens of the texts tsTryParse is tried on
MaxNestDepth == 1       \* brackets, parentheses and signatures around an inner `infer`
MaxContextChars == 4    \* characters of the texts with parentheses tried
MaxUnparsedChars == 4   \* characters of the texts a name is looked for in

P(t) == Tk(t, t)
Str(v) == Tk("string", v)
Num(v) == Tk("num", v)
Plus == Tk("plusMin", "+")
Minus == Tk("plusMin", "-")
Lt == Tk("relational", "<")
Gt == Tk("relational", ">")

SeqsUpTo(S, n) == UNION {[1..k -> S] : k \in 0..n}

\* the sequence with a line break before its i-th token
BreakBefore(seq, i) ==
    IF i \in 1..Len(seq) THEN [seq EXCEPT ![i] = NL(seq[i])] ELSE seq

RECURSIVE Flatten(_)
Flatten(seqs) == IF seqs = <<>> THEN <<>> ELSE Head(seqs) \o Flatten(Tail(seqs))

\* `function f(): void;`, a statement the host parses
FunctionTokens ==
    <<P("_function"), Id("f"), P("parenL"), P("parenR"), P("colon"),
      P("_void"), P("semi")>>

\* what may follow the leading word of a statement
StatementTails ==
    { <<>>,
      <<P("semi")>>,
      <<P("semi"), Id("x"), P("semi")>>,
      <<Num("5"), P("semi")>>,
      <<P("eq"), Num("5"), P("semi")>>,
      <<P("parenL"), P("parenR"), P("semi")>>,
      <<P("braceL"), P("braceR")>>,
      <<Id("N"), P("eq"), Id("number"), P("semi")>>,
      <<Id("N"), P("braceL"), P("braceR")>>,
      <<Id("N"), P("braceL")>> \o FunctionTokens \o <<P("braceR")>>,
      <<Str("x"), P("semi")>>,
      <<Str("x"), P("braceL")>> \o FunctionTokens \o <<P("braceR")>>,
      <<P("braceL")>> \o FunctionTokens \o <<P("braceR")>>,
      <<P("_class"), Id("C"), P("braceL"), P("braceR")>>,
      <<Kw("interface"), Id("I"), P("braceL"), P("braceR")>>,
      <<Kw("module"), Str("x"), P("braceL")>> \o FunctionTokens \o <<P("braceR")>>,
      <<Kw("namespace"), Id("N"), P("braceL")>> \o FunctionTokens \o <<P("braceR")>>,
      <<Kw("global"), P("braceL")>> \o FunctionTokens \o <<P("braceR")>>,
      <<Kw("type"), Id("T"), P("eq"), Id("number"), P("semi")>>,
      <<Kw("enum"), Id("E"), P("braceL"), Id("A"), P("braceR")>>,
      <<P("_const"), Kw("enum"), Id("E"), P("braceL"), P("braceR")>>,
      <<P("_var"), Id("x"), P("semi")>>,
      FunctionTokens }

StatementHeads ==
    {Kw("abstract"), Kw("module"), Kw("namespace"), Kw("type"),
     Kw("interface"), Kw("declare"), Kw("global"), Id("foo")}

\* a leading word, a tail, and a line break before the first or the second
\* token of the tail, or none
StatementInputs ==
    {BreakBefore(<<h>> \o t, b) : h \in StatementHeads, t \in StatementTails,
                                 b \in {0, 2, 3}}

\* a conditional type without its operands' names: a reference, or
\* `T extends T ? t : f`
RECURSIVE CondTreesUpTo(_)
CondTreesUpTo(d) ==
    IF d = 0 THEN {[k |-> "ref"]}
    ELSE {[k |-> "ref"]} \cup
         {[k |-> "cond", t |-> a, f |-> b] : a, b \in CondTreesUpTo(d - 1)}

CondTrees == CondTreesUpTo(MaxCondDepth)

\* the tokens of a tree, written without parentheses
RECURSIVE CondTokens(_)
CondTokens(tree) ==
    IF tree.k = "ref" THEN <<Id("T")>>
    ELSE <<Id("T"), P("_extends"), Id("T"), P("question")>>
         \o CondTokens(tree.t) \o <<P("colon")>> \o CondTokens(tree.f)

CondInputs == {CondTokens(tree) : tree \in CondTrees}

\* `{`, an optional sign, an optional readonly, and up to MaxProbeLen of the
\* tokens a mapped type or an index signature starts with
MappedProbeInputs ==
    {<<P("braceL")>> \o sign \o ro \o q :
        sign \in {<<>>, <<Plus>>, <<Minus>>},
        ro \in {<<>>, <<Kw("readonly")>>},
        q \in SeqsUpTo({P("bracketL"), Id("K"), P("_in"), P("question")},
                       MaxProbeLen)}

\* { [K in T]: U }
MappedSentence ==
    <<P("braceL"), P("bracketL"), Id("K"), P("_in"), Id("T"), P("bracketR"),
      P("colon"), Id("U"), P("braceR")>>

\* { [x: string]: U }
IndexSentence ==
    <<P("braceL"), P("bracketL"), Id("x"), P("colon"), Id("string"),
      P("bracketR"), P("colon"), Id("U"), P("braceR")>>

\* what a parameter of a function type may start with, and what looks like
\* it but is not one
ParameterStarts ==
    { <<Id("a")>>, <<P("_this")>>,
      <<P("braceL"), P("braceR")>>, <<P("braceL"), Id("a"), P("braceR")>>,
      <<P("bracketL"), P("bracketR")>>,
      <<P("bracketL"), Id("a"), P("bracketR")>> }

NoParameterStarts ==
    { <<>>, <<Str("s")>>, <<P("braceL"), P("colon")>>,
      <<P("bracketL"), P("colon")>> }

FollowTokens ==
    {P("colon"), P("comma"), P("question"), P("eq"), P("parenR"), P("arrow"),
     P("ellipsis"), Id("U")}

\* `(`, a parameter start or none, and up to MaxFollowLen more tokens
FunctionProbeInputs ==
    {<<P("parenL")>> \o s \o q :
        s \in ParameterStarts \cup NoParameterStarts,
        q \in SeqsUpTo(FollowTokens, MaxFollowLen)}

\* () => U, (a) => U, (a, b) => U, (...a) => U, (U)
FunctionSentences ==
    { <<P("parenL"), P("parenR"), P("arrow"), Id("U")>>,
      <<P("parenL"), Id("a"), P("parenR"), P("arrow"), Id("U")>>,
      <<P("parenL"), Id("a"), P("comma"), Id("b"), P("parenR"), P("arrow"),
        Id("U")>>,
      <<P("parenL"), P("ellipsis"), Id("a"), P("parenR"), P("arrow"),
        Id("U")>>,
      <<P("parenL"), Id("U"), P("parenR")>> }

\* the shapes of a tuple element: a, a?, ...a, a: T, a?: T, ...a: T
ElementShapes ==
    {"plain", "optional", "rest", "labeled", "labeledOptional", "labeledRest"}

ElementTokens(shape) ==
    CASE shape = "plain" -> <<Id("a")>>
      [] shape = "optional" -> <<Id("a"), P("question")>>
      [] shape = "rest" -> <<P("ellipsis"), Id("a")>>
      [] shape = "labeled" -> <<Id("a"), P("colon"), Id("T")>>
      [] shape = "labeledOptional" ->
            <<Id("a"), P("question"), P("colon"), Id("T")>>
      [] shape = "labeledRest" -> <<P("ellipsis"), Id("a"), P("colon"), Id("T")>>

\* the elements of the shapes, separated by commas
RECURSIVE ElementListTokens(_)
ElementListTokens(shapes) ==
    IF shapes = <<>> THEN <<>>
    ELSE IF Len(shapes) = 1 THEN ElementTokens(shapes[1])
    ELSE ElementTokens(shapes[1]) \o <<P("comma")>>
         \o ElementListTokens(Tail(shapes))

TupleTokens(shapes) ==
    <<P("bracketL")>> \o ElementListTokens(shapes) \o <<P("bracketR")>>

TupleShapeSeqs == SeqsUpTo(ElementShapes, MaxTupleLen)

TupleInputs == {TupleTokens(shapes) : shapes \in TupleShapeSeqs}

\* class members: #a; #b; m() {} #a() {} abstract m() {}
MemberShapes == {"fieldA", "fieldB", "method", "methodA", "abstractMethod"}

MethodTail == <<P("parenL"), P("parenR"), P("braceL"), P("braceR")>>

MemberTokens(shape) ==
    CASE shape = "fieldA" -> <<Tk("privateId", "a"), P("semi")>>
      [] shape = "fieldB" -> <<Tk("privateId", "b"), P("semi")>>
      [] shape = "method" -> <<Id("m")>> \o MethodTail
      [] shape = "methodA" -> <<Tk("privateId", "a")>> \o MethodTail
      [] shape = "abstractMethod" -> <<Kw("abstract"), Id("m")>> \o MethodTail

ClassTokens(abstract, members) ==
    (IF abstract THEN <<Kw("abstract")>> ELSE <<>>)
    \o <<P("_class"), Id("C"), P("braceL")>>
    \o Flatten([i \in DOMAIN members |-> MemberTokens(members[i])])
    \o <<P("braceR")>>

MemberShapeSeqs == SeqsUpTo(MemberShapes, MaxClassMembers)

ClassInputs ==
    {ClassTokens(abstract, members) :
        abstract \in BOOLEAN, members \in MemberShapeSeqs}

\* the words tsParseModifiers knows, as readWord tokenizes them: `static`,
\* `readonly`, `declare` and `abstract` are soft keywords, `in` is a keyword
\* of the host, the others are plain names
ModifierWords ==
    {"public", "private", "override", "static", "readonly", "declare",
     "abstract", "in", "out"}

ModifierToken(word) ==
    IF word \in tsTokenType THEN Kw(word)
    ELSE IF word = "in" THEN Tk("_in", "in")
    ELSE Id(word)

\* the tokens tried after the last modifier word
ModifierFollowers ==
    {P("bracketL"), P("braceL"), P("star"), P("ellipsis"),
     Tk("privateId", "a"), Id("x"), Kw("type"), P("_class"), Str("s"),
     Num("1"), P("colon"), P("parenL"), NL(P("bracketL")), NL(Id("x"))}

ModifierWordSeqs == SeqsUpTo(ModifierWords, MaxModifiers)

ModifierTokens(words, follower) ==
    [i \in 1..Len(words) |-> ModifierToken(words[i])] \o <<follower, P("colon")>>

\* a run of modifier words before each follower, and before `[` on the next
\* line
ModifierInputs(words) ==
    {ModifierTokens(words, follower) : follower \in ModifierFollowers}
    \cup (IF words = <<>> THEN {}
          ELSE {BreakBefore(ModifierTokens(words, P("bracketL")), 2)})

\* texts of `<`, `>`, `=`, an identifier character and blanks
OperatorTexts == SeqsUpTo({"<", ">", "=", "a", " "}, MaxOperatorChars)

\* texts of words, blanks, line breaks, block comments, line comments and
\* block comments left open
CommentUnits ==
    {<<"a">>, <<" ">>, <<"\n">>, <<"/", "*", "a", "*", "/">>,
     <<"/", "*", "\n", "*", "/">>, <<"/", "/", "a">>, <<"/", "*", "a">>}

CommentTexts == {Flatten(units) : units \in SeqsUpTo(CommentUnits, MaxCommentUnits)}

\* the context stack at statement level, and inside the braces of an expression
ContextStacks == {<<"b_stat">>, <<"b_stat", "b_expr">>}

\* runs of elements and commas, closed by `]`, `}` or `>`
ListItemSeqs == SeqsUpTo({Id("a"), Id("b"), P("comma")}, MaxListTokens)

ListInputs ==
    {items \o <<close>> :
        items \in ListItemSeqs, close \in {P("bracketR"), P("braceR"), Gt}}

\* the tokens the speculative functions look at, and a few they reject
SpeculationTokens ==
    {Id("x"), Kw("is"), Kw("asserts"), P("_extends"), P("question"),
     P("_this"), P("colon"), P("bracketL"), P("bracketR")}

SpeculationSeqs == SeqsUpTo(SpeculationTokens, MaxSpeculationLen) \ {<<>>}

SpeculationInputs ==
    SpeculationSeqs \cup {BreakBefore(seq, 2) : seq \in SpeculationSeqs}

\* what an inner `infer V extends X` is wrapped in: a tuple, parentheses, or
\* the return type of a function type
NestWraps == {"tuple", "paren", "function"}

NestOpen(wrap) ==
    CASE wrap = "tuple" -> <<P("bracketL")>>
      [] wrap = "paren" -> <<P("parenL")>>
      [] OTHER -> <<P("parenL"), P("parenR"), P("arrow")>>

NestClose(wrap) ==
    CASE wrap = "tuple" -> <<P("bracketR")>>
      [] wrap = "paren" -> <<P("parenR")>>
      [] OTHER -> <<>>

RECURSIVE NestOpens(_)
NestOpens(wraps) ==
    IF wraps = <<>> THEN <<>> ELSE NestOpen(Head(wraps)) \o NestOpens(Tail(wraps))

RECURSIVE NestCloses(_)
NestCloses(wraps) ==
    IF wraps = <<>> THEN <<>> ELSE NestCloses(Tail(wraps)) \o NestClose(Head(wraps))

\* a constraint with an inner `infer` in it: the wrappers from the outside
\* in, and whether `? A : B` follows the inner constraint and `? C : D` the
\* outer one
NestShapes ==
    [wraps : SeqsUpTo(NestWraps, MaxNestDepth),
     innerCond : BOOLEAN, outerCond : BOOLEAN]

\* extends <wrappers> infer V extends X [? A : B] <closers> [? C : D]
NestTokens(shape) ==
    <<P("_extends")>> \o NestOpens(shape.wraps)
    \o <<Kw("infer"), Id("V"), P("_extends"), Id("X")>>
    \o (IF shape.innerCond
        THEN <<P("question"), Id("A"), P("colon"), Id("B")>> ELSE <<>>)
    \o NestCloses(shape.wraps)
    \o (IF shape.outerCond
        THEN <<P("question"), Id("C"), P("colon"), Id("D")>> ELSE <<>>)

\* infer U extends ...
NestSentence(shape) == <<Kw("infer"), Id("U")>> \o NestTokens(shape)

NestInputs ==
    {NestTokens(shape) : shape \in NestShapes}
    \cup {NestSentence(shape) : shape \in NestShapes}

TypeInputs ==
    CondInputs \cup MappedProbeInputs \cup {MappedSentence, IndexSentence}
    \cup FunctionProbeInputs \cup FunctionSentences

\* conditional, function and mapped types, nested `infer` constraints, and
\* what follows `declare`
ScopeInputs ==
    CondInputs \cup FunctionSentences \cup {MappedSentence, IndexSentence}
    \cup {NestSentence(shape) : shape \in NestShapes} \cup StatementInputs

\* T extends <wrappers> infer V extends X [? A : B] <closers> [? C : D]
ExtendsOperandSentence(shape) == <<Id("T")>> \o NestTokens(shape)

\* T extends infer V extends X extends Y ? A : B
DoubleExtendsSentence ==
    <<Id("T"), P("_extends"), Kw("infer"), Id("V"), P("_extends"), Id("X"),
      P("_extends"), Id("Y"), P("question"), Id("A"), P("colon"), Id("B")>>

\* the sentences, the same with a line break before the first `extends`,
\* and the conditional types
ExtendsOperandInputs ==
    {BreakBefore(ExtendsOperandSentence(shape), b) :
        shape \in NestShapes, b \in {0, 2}}
    \cup {DoubleExtendsSentence} \cup CondInputs

\* runs of soft keywords and identifiers
EatInputs ==
    SeqsUpTo({Kw("as"), Kw("readonly"), Kw("declare"), Id("foo"), Id("x")},
             MaxEats)

\* texts of identifier characters, a digit, a blank and a high surrogate
UnparsedTexts == SeqsUpTo({"i", "n", "1", " ", HighSurrogate}, MaxUnparsedChars)

\* A<B, [C]>, A[B] and [A<B>, (C)]
EntrySentences ==
    { <<Id("A"), Lt, Id("B"), P("comma"), P("bracketL"), Id("C"),
        P("bracketR"), Gt>>,
      <<Id("A"), P("bracketL"), Id("B"), P("bracketR")>>,
      <<P("bracketL"), Id("A"), Lt, Id("B"), Gt, P("comma"), P("parenL"),
        Id("C"), P("parenR"), P("bracketR")>> }

\* what a statement and a type annotation are parsed from
EntryInputs ==
    TypeInputs \cup TupleInputs \cup EntrySentences
    \cup {NestSentence(shape) : shape \in NestShapes} \cup StatementInputs

\* texts of parentheses, angle brackets, `=` and an identifier character
ContextTexts == SeqsUpTo({"(", ")", "<", ">", "=", "a"}, MaxContextChars)

-----------------------------------------------------------------------------
(* Specifications *)

InitStmt == InitWith(StatementInputs)

NextStmt == ParseStatement

\* programs that start with a declaration word, parsed statement by statement
SpecStmt == InitStmt /\ [][NextStmt]_vars

InitType == InitWith(TypeInputs)

NextType ==
    \/ ParseTypeAnnotation
    \/ LookAheadStartOfMappedType
    \/ IsStartOfFunctionType

\* types, parsed by tsParseTypeAnnotation after at most one speculative check
SpecType == InitType /\ [][NextType]_vars

InitDiag == InitWith(TupleInputs \cup ClassInputs)

NextDiag ==
    \/ ParseTypeAnnotation
    \/ ParseStatement

\* tuple types, parsed by tsParseTypeAnnotation, and classes, parsed as
\* statements: the inputs that make the parser report a diagnostic
SpecDiag == InitDiag /\ [][NextDiag]_vars

InitMod == \E words \in ModifierWordSeqs : InitWith(ModifierInputs(words))

NextMod ==
    \/ ParseModifiers
    \/ ParseModifier

\* runs of modifier words before a member name, read by tsParseModifiers or
\* one word at a time by tsParseModifier
SpecMod == InitMod /\ [][NextMod]_vars

\* the tokenizer before the first token of a text, inside or outside a type
InitLex ==
    /\ dts = FALSE
    /\ input = <<>>
    /\ pos = 1
    /\ lastTokEnd = 0
    /\ inType \in BOOLEAN
    /\ isAmbientContext = FALSE
    /\ inDisallowConditionalTypesContext = FALSE
    /\ inAbstractClass = FALSE
    /\ stmtLog = <<>>
    /\ diagnostics = <<>>
    /\ \E text \in OperatorTexts \cup CommentTexts, locations \in BOOLEAN,
          context \in ContextStacks :
          lexer = NewTokenizer(text, locations, TRUE, context)
    /\ pc = "ready"
    /\ steps = 0
    /\ op = "none"
    /\ result = NoResult

NextLex ==
    \/ NextToken
    \/ Lookahead

\* texts read token by token, with a peek at the next token now and then
SpecLex == InitLex /\ [][NextLex]_vars

InitList == InitWith(ListInputs)

NextList == ParseDelimitedList

\* comma-separated lists, read by tsParseDelimitedList
SpecList == InitList /\ [][NextList]_vars

InitTry == InitWith(SpeculationInputs)

NextTry ==
    \/ TryParse
    \/ ParseTypeAnnotation

\* speculation: tsTryParse on a short text, tried again after "no match",
\* and the same text read by a committed parse
SpecTry == InitTry /\ [][NextTry]_vars

InitNest == InitWith(NestInputs)

NextNest ==
    \/ TryParse
    \/ ParseTypeAnnotation

\* nested speculation: tsTryParse on an `extends` constraint that holds an
\* inner `infer`, and the whole `infer U extends ...` read as a type
SpecNest == InitNest /\ [][NextNest]_vars

InitScope == InitInScope(ScopeInputs)

NextScope ==
    \/ InType
    \/ InAmbientContext
    \/ InConditionalTypesContext

\* the scoped helpers, each called once with the flags in any state
SpecScope == InitScope /\ [][NextScope]_vars

InitOperand == InitWith(ExtendsOperandInputs)

NextOperand == ParseTypeAnnotation

\* conditional types with an `infer` in the `extends` operand
SpecOperand == InitOperand /\ [][NextOperand]_vars

InitEat == InitWith(EatInputs)

NextEat == EatContextual

\* eatContextual called again and again on a run of words
SpecEat == InitEat /\ [][NextEat]_vars

\* the tokenizer at the start of a text a name is looked for in
InitUnparsed ==
    /\ dts = FALSE
    /\ input = <<>>
    /\ pos = 1
    /\ lastTokEnd = 0
    /\ inType = FALSE
    /\ isAmbientContext = FALSE
    /\ inDisallowConditionalTypesContext = FALSE
    /\ inAbstractClass = FALSE
    /\ stmtLog = <<>>
    /\ diagnostics = <<>>
    /\ \E text \in UnparsedTexts :
          lexer = NewTokenizer(text, FALSE, FALSE, <<"b_stat">>)
    /\ pc = "ready"
    /\ steps = 0
    /\ op = "none"
    /\ result = NoResult

NextUnparsed == IsUnparsedContextual

\* a name looked for in the raw text
SpecUnparsed == InitUnparsed /\ [][NextUnparsed]_vars

InitDecl == InitWith(StatementInputs)

NextDecl ==
    \/ ParseDeclaration
    \/ TryParseDeclare

\* the declaration parsers called at the leading word of a statement
SpecDecl == InitDecl /\ [][NextDecl]_vars

InitEntry == InitWith(EntryInputs)

NextEntry ==
    \/ ParseStatement
    \/ ParseTypeAnnotation

\* the parser entered from outside a type: at a statement, and at a type
\* annotation
SpecEntry == InitEntry /\ [][NextEntry]_vars

\* the tokenizer before the first token of a text with parentheses
InitCtx ==
    /\ dts = FALSE
    /\ input = <<>>
    /\ pos = 1
    /\ lastTokEnd = 0
    /\ inType \in BOOLEAN
    /\ isAmbientContext = FALSE
    /\ inDisallowConditionalTypesContext = FALSE
    /\ inAbstractClass = FALSE
    /\ stmtLog = <<>>
    /\ diagnostics = <<>>
    /\ \E text \in ContextTexts, context \in ContextStacks :
          lexer = NewTokenizer(text, FALSE, FALSE, context)
    /\ pc = "ready"
    /\ steps = 0
    /\ op = "none"
    /\ result = NoResult

NextCtx ==
    \/ NextToken
    \/ TryParseModifierFollower
    \/ LookAheadFunctionType
    \/ InNoContext

\* the context stack: tokens read one by one, with a speculative check or a
\* type argument list in between
SpecCtx == InitCtx /\ [][NextCtx]_vars

-----------------------------------------------------------------------------
(* Statements that start with a declaration word (SpecStmt) *)

\* the parser as InitWith starts it on the input
StartParser == [NewParser(input) EXCEPT !.isAmbientContext = dts]

\* the first ParseStatement has run
FirstStatementDone == steps = 1 /\ op = "parseStatement"

\* what ParseStatement records of a method's return
Outcome(r) == [ok |-> r.ok, node |-> r.node, err |-> r.err]

\* C1: at the statement dispatcher `interface` followed at once by `(` is
\* left to the host's expression statement, and `interface Foo {}` gives a
\* TSInterfaceDeclaration
C1_InterfaceStatement ==
    (FirstStatementDone /\ input[1].type = "interface" /\ Len(input) >= 2
        /\ ~input[2].nl) =>
        /\ input[2].type = "parenL" /\ result.ok =>
               result.node.type = "ExpressionStatement"
        /\ \/ Len(input) # 4
           \/ ~tokenIsIdentifier(input[2].type)
           \/ input[3].type # "braceL" \/ input[4].type # "braceR"
           \/ result.ok /\ result.node.type = "TSInterfaceDeclaration"

\* the words tsParseDeclaration knows
DeclarationWords == {"abstract", "module", "namespace", "type"}

\* the kind of token the word must be followed by to start a declaration
RequiredAfter(word, t) ==
    CASE word = "abstract" -> t = "_class" \/ tokenIsIdentifier(t)
      [] word = "module" -> t = "string" \/ tokenIsIdentifier(t)
      [] OTHER -> tokenIsIdentifier(t)

\* the statement starts with a declaration word that a line break or a token
\* of another kind follows
NoDeclarationFollows ==
    /\ input[1].type \in DeclarationWords
    /\ \/ TokAt(StartParser, 2).nl
       \/ ~RequiredAfter(input[1].type, TokAt(StartParser, 2).type)

\* the host's expression for the leading word
WordExpression ==
    [type |-> "Identifier", name |-> input[1].value, start |-> 1]

\* C2: when a line break or a token of another kind follows abstract, module,
\* namespace or type, tsParseDeclaration yields no declaration and the
\* statement is what the host's expression-statement parser returns
C2_NoDeclarationFallsBack ==
    (FirstStatementDone /\ NoDeclarationFollows) =>
        LET with_d(d) ==
           /\ d.ok /\ d.node = NoNode
           /\ TokAt(StartParser, 2).type # "parenL" =>
                LET with_h(h) ==
                   /\ result = Outcome(h)
                   /\ Parser = h.ps
                   /\ result.ok =>
                        /\ result.node.type = "ExpressionStatement"
                        /\ result.node.expression = WordExpression
                IN with_h(superParseExpressionStatement(d.ps, 1, WordExpression))
        IN with_d(tsParseDeclaration(
                     next(logStatement(StartParser, "ExpressionStatement")),
                     1, input[1].value, FALSE))

\* `type`, a line break, a name: the word is an expression statement
C2_Witness ==
    /\ FirstStatementDone
    /\ NoDeclarationFollows
    /\ input[1].type = "type" /\ Len(input) >= 2
    /\ input[2].nl /\ tokenIsIdentifier(input[2].type)
    /\ result.ok /\ result.node.type = "ExpressionStatement"
    /\ pos = 2

\* declare, then module "x", namespace N or global, then a block holding
\* `function f(): void;`
DeclareBlockInputs ==
    {<<Kw("declare")>> \o h \o <<P("braceL")>> \o FunctionTokens \o <<P("braceR")>> :
        h \in {<<Kw("module"), Str("x")>>, <<Kw("namespace"), Id("N")>>,
               <<Kw("global")>>}}

\* C3: the statements nested in a declare statement are parsed with
\* isAmbientContext set, and once the declare statement is parsed
\* isAmbientContext has the value it had before
C3_DeclareIsAmbient ==
    (FirstStatementDone /\ input \in DeclareBlockInputs) =>
        /\ result.ok
        /\ \E i \in DOMAIN stmtLog :
              stmtLog[i].kind = "FunctionDeclaration" /\ stmtLog[i].start > 1
        /\ \A i \in DOMAIN stmtLog : stmtLog[i].start > 1 => stmtLog[i].ambient
        /\ isAmbientContext = dts

-----------------------------------------------------------------------------
(* Types (SpecType) *)

\* tsParseTypeAnnotation has run
TypeParsed == op = "tsParseTypeAnnotation"

\* the type of the i-th token of the input, eof past its end
TypeAt(i) == TokAt(StartParser, i).type

\* the conditional type of a tree whose first token is the s-th: the kind and
\* the start of every node
RECURSIVE Expected(_, _)
Expected(tree, s) ==
    IF tree.k = "ref" THEN [k |-> "TSTypeReference", at |-> s]
    ELSE [k |-> "TSConditionalType", at |-> s,
          checkType |-> [k |-> "TSTypeReference", at |-> s],
          extendsType |-> [k |-> "TSTypeReference", at |-> s + 2],
          trueType |-> Expected(tree.t, s + 4),
          falseType |-> Expected(tree.f, s + 5 + Len(CondTokens(tree.t)))]

\* the kind and the start of every node of a parsed type
RECURSIVE Placed(_)
Placed(node) ==
    IF node.type = "TSConditionalType"
    THEN [k |-> node.type, at |-> node.start,
          checkType |-> Placed(node.checkType),
          extendsType |-> Placed(node.extendsType),
          trueType |-> Placed(node.trueType),
          falseType |-> Placed(node.falseType)]
    ELSE [k |-> node.type, at |-> node.start]

\* A extends B ? C extends D ? E : F : G
NestedInTrueBranch ==
    [k |-> "cond", t |-> [k |-> "cond", t |-> [k |-> "ref"], f |-> [k |-> "ref"]],
     f |-> [k |-> "ref"]]

\* C4: tsParseType is right-associative for conditional types: a conditional
\* type written in the true or in the false branch of another, without
\* parentheses, is that branch, so that `A extends B ? C extends D ? E : F : G`
\* has the trueType `C extends D ? E : F` and the falseType G
C4_ConditionalRightAssociative ==
    (TypeParsed /\ input \in CondInputs) =>
        /\ result.ok
        /\ pos = Len(input) + 1
        /\ \A tree \in CondTrees :
              input = CondTokens(tree) =>
                  Placed(result.node.typeAnnotation) = Expected(tree, 1)

C4_Witness ==
    /\ TypeParsed
    /\ input = CondTokens(NestedInTrueBranch)
    /\ result.ok
    /\ result.node.typeAnnotation.type = "TSConditionalType"
    /\ result.node.typeAnnotation.trueType.type = "TSConditionalType"
    /\ result.node.typeAnnotation.trueType.start = 5
    /\ result.node.typeAnnotation.falseType.type = "TSTypeReference"
    /\ result.node.typeAnnotation.falseType.start = 13

\* the tokens after `{` are `+` or `-` and readonly, or an optional readonly,
\* `[`, an identifier and `in`
MappedShape ==
    IF TypeAt(2) = "plusMin" THEN TypeAt(3) = "readonly"
    ELSE LET j == IF TypeAt(2) = "readonly" THEN 3 ELSE 2
         IN /\ TypeAt(j) = "bracketL"
            /\ tokenIsIdentifier(TypeAt(j + 1))
            /\ TypeAt(j + 2) = "_in"

\* the tokens after `{` are an optional `+` or `-`, an optional readonly, `[`,
\* an identifier and `in`
MappedShapeWithOptionalSign ==
    LET i == IF TypeAt(2) = "plusMin" THEN 3 ELSE 2
        j == IF TypeAt(i) = "readonly" THEN i + 1 ELSE i
    IN /\ TypeAt(j) = "bracketL"
       /\ tokenIsIdentifier(TypeAt(j + 1))
       /\ TypeAt(j + 2) = "_in"

\* the parser at the `{` the type starts with, in a type context
AtBrace == tsInType(StartParser)

\* what tsParseTypeAnnotation returns when the production p of the type at
\* `{` returns r and the type ends there
AnnotationOf(r) ==
    IF r.ok
    THEN [ok |-> TRUE, err |-> NoErr,
          node |-> [type |-> "TSTypeAnnotation", start |-> 1,
                    typeAnnotation |-> r.node]]
    ELSE Outcome(r)

\* the two sentences of the mapped type and of the index signature
BraceSentences ==
    /\ (TypeParsed /\ input = MappedSentence) =>
           result.ok /\ result.node.typeAnnotation.type = "TSMappedType"
    /\ (TypeParsed /\ input = IndexSentence) =>
           /\ result.ok
           /\ result.node.typeAnnotation.type = "TSTypeLiteral"
           /\ Len(result.node.typeAnnotation.members) = 1
           /\ result.node.typeAnnotation.members[1].type = "TSIndexSignature"

\* C5 (amended): at `{` tsParseNonArrayType parses a mapped type exactly when
\* the tokens after `{` are `+` or `-` followed by readonly, or an optional
\* readonly, `[`, an identifier and `in`, and a type literal otherwise;
\* `{ [K in T]: U }` gives a TSMappedType and `{ [x: string]: U }` a
\* TSTypeLiteral; the speculative check leaves the parser at `{`
C5_MappedTypeStart ==
    (input[1].type = "braceL") =>
        /\ op = "tsIsStartOfMappedType" =>
               result.ans = MappedShape /\ pos = 1
        /\ TypeParsed =>
               result = AnnotationOf(IF MappedShape
                                     THEN tsParseMappedType(AtBrace)
                                     ELSE tsParseTypeLiteral(AtBrace))
        /\ BraceSentences

C5_Witness ==
    /\ TypeParsed /\ steps = 2
    /\ input = IndexSentence
    /\ ~MappedShape
    /\ result.ok /\ result.node.typeAnnotation.type = "TSTypeLiteral"

\* C5 as the specification words it: a mapped type exactly when the tokens
\* after `{` are an optional `+` or `-`, an optional readonly, `[`, an
\* identifier and `in`
C5_MappedTypeStartWithOptionalSign ==
    (input[1].type = "braceL") =>
        /\ op = "tsIsStartOfMappedType" =>
               result.ans = MappedShapeWithOptionalSign /\ pos = 1
        /\ TypeParsed =>
               result = AnnotationOf(IF MappedShapeWithOptionalSign
                                     THEN tsParseMappedType(AtBrace)
                                     ELSE tsParseTypeLiteral(AtBrace))
        /\ BraceSentences

\* the index after the parameter start at the i-th token, 0 when none starts
\* there: an identifier, this, an object pattern `{}` or `{a}`, an array
\* pattern `[]` or `[a]`
ParameterStartEnd(i) ==
    CASE tokenIsIdentifier(TypeAt(i)) \/ TypeAt(i) = "_this" -> i + 1
      [] TypeAt(i) = "braceL" /\ TypeAt(i + 1) = "braceR" -> i + 2
      [] TypeAt(i) = "braceL" /\ tokenIsIdentifier(TypeAt(i + 1))
            /\ TypeAt(i + 2) = "braceR" -> i + 3
      [] TypeAt(i) = "bracketL" /\ TypeAt(i + 1) = "bracketR" -> i + 2
      [] TypeAt(i) = "bracketL" /\ tokenIsIdentifier(TypeAt(i + 1))
            /\ TypeAt(i + 2) = "bracketR" -> i + 3
      [] OTHER -> 0

\* the token after `(` is `)` or `...`, or a parameter start is followed by
\* `:`, `,`, `?` or `=`, or by `)` and `=>`
FunctionShape ==
    \/ TypeAt(2) \in {"parenR", "ellipsis"}
    \/ LET e == ParameterStartEnd(2)
       IN /\ e # 0
          /\ \/ TypeAt(e) \in {"colon", "comma", "question", "eq"}
             \/ TypeAt(e) = "parenR" /\ TypeAt(e + 1) = "arrow"

\* C6: at `(` tsIsStartOfFunctionType answers true exactly when the token
\* after `(` is `)` or `...`, or a parameter start is followed by `:`, `,`, `?`
\* or `=`, or by `)` and then `=>`; otherwise a parenthesized type is parsed;
\* the parser is back at `(` when the check returns
C6_FunctionTypeStart ==
    (input[1].type = "parenL") =>
        /\ op = "tsIsStartOfFunctionType" =>
               result.ans = FunctionShape /\ pos = 1
        /\ (TypeParsed /\ result.ok) =>
               /\ result.node.typeAnnotation.start = 1
               /\ result.node.typeAnnotation.type =
                      IF FunctionShape THEN "TSFunctionType"
                      ELSE "TSParenthesizedType"

\* `(a) => U` after the check: a function type
C6_Witness ==
    /\ TypeParsed /\ steps = 2
    /\ input = <<P("parenL"), Id("a"), P("parenR"), P("arrow"), Id("U")>>
    /\ FunctionShape
    /\ result.ok /\ result.node.typeAnnotation.type = "TSFunctionType"
    /\ pos = 6

-----------------------------------------------------------------------------
(* Diagnostics (SpecDiag) *)

\* the diagnostic was reported: thrown by raise, or handed to raiseRecoverable
Reported(msg, at) ==
    \/ ~result.ok /\ result.err = [msg |-> msg, at |-> at]
    \/ \E i \in DOMAIN diagnostics : diagnostics[i] = [msg |-> msg, at |-> at]

\* tsParseTypeAnnotation has run on the tuple of the shapes
TupleParsed(shapes) == TypeParsed /\ input = TupleTokens(shapes)

\* the index of the first token of the i-th element
ElementStart(shapes, i) == 2 + Len(ElementListTokens(SubSeq(shapes, 1, i - 1)))
                             + (IF i > 1 THEN 1 ELSE 0)

\* the index of the first token after the `...` of the i-th element
ArgumentStart(shapes, i) ==
    ElementStart(shapes, i)
        + (IF shapes[i] \in {"rest", "labeledRest"} THEN 1 ELSE 0)

IsMandatoryShape(shape) == shape \in {"plain", "labeled"}
IsOptionalShape(shape) == shape \in {"optional", "labeledOptional"}
IsRestShape(shape) == shape \in {"rest", "labeledRest"}
IsLabeledShape(shape) == shape \in {"labeled", "labeledOptional", "labeledRest"}

\* the i-th element is mandatory and an optional element comes before it
RequiredAfterOptional(shapes, i) ==
    /\ IsMandatoryShape(shapes[i])
    /\ \E j \in 1..(i - 1) : IsOptionalShape(shapes[j])

\* C7: a tuple element that is neither optional nor rest nor a named member
\* marked optional, and that comes after an optional element, raises
\* OptionalTypeBeforeRequired at its start; no other element does
C7_OptionalBeforeRequired ==
    \A shapes \in TupleShapeSeqs :
        TupleParsed(shapes) =>
            \A i \in DOMAIN shapes :
                Reported("OptionalTypeBeforeRequired", ElementStart(shapes, i))
                    <=> RequiredAfterOptional(shapes, i)

\* the i-th element is mandatory and follows a rest element, and no optional
\* element comes before it
RequiredAfterRestOnly(shapes, i) ==
    /\ IsMandatoryShape(shapes[i])
    /\ \E j \in 1..(i - 1) : IsRestShape(shapes[j])
    /\ \A j \in 1..(i - 1) : ~IsOptionalShape(shapes[j])

\* C8 (amended): a mandatory element that follows a rest element raises the
\* tuple ordering diagnostic only when an optional element comes before it
\* too; a rest element alone makes no later element an error, and `[...a, b]`
\* parses with no diagnostic
C8_RestAllowsRequired ==
    \A shapes \in TupleShapeSeqs :
        TupleParsed(shapes) =>
            /\ \A i \in DOMAIN shapes :
                  RequiredAfterRestOnly(shapes, i) =>
                      ~Reported("OptionalTypeBeforeRequired",
                                ElementStart(shapes, i))
            /\ shapes = <<"rest", "plain">> =>
                  result.ok /\ diagnostics = <<>>

\* `[...a, b]` is a tuple of a rest element and a mandatory one
C8_Witness ==
    /\ TupleParsed(<<"rest", "plain">>)
    /\ RequiredAfterRestOnly(<<"rest", "plain">>, 2)
    /\ result.ok
    /\ result.node.typeAnnotation.type = "TSTupleType"
    /\ result.node.typeAnnotation.elementTypes[1].type = "TSRestType"
    /\ result.node.typeAnnotation.elementTypes[2].type = "TSTypeReference"
    /\ diagnostics = <<>>

\* C8 as the specification words it: a mandatory element that follows a rest
\* element raises the tuple ordering diagnostic
C8_RequiredAfterRestRaises ==
    \A shapes \in TupleShapeSeqs :
        TupleParsed(shapes) =>
            \A i \in DOMAIN shapes :
                (IsMandatoryShape(shapes[i])
                    /\ \E j \in 1..(i - 1) : IsRestShape(shapes[j])) =>
                    Reported("OptionalTypeBeforeRequired",
                             ElementStart(shapes, i))

\* the elements whose labelling differs from the first element's
Mislabeled(shapes) ==
    {i \in DOMAIN shapes : IsLabeledShape(shapes[i]) # IsLabeledShape(shapes[1])}

\* the first of a nonempty set of indices
First(S) == CHOOSE i \in S : \A j \in S : i <= j

\* C9: the elements of a tuple are all labeled or all unlabeled, a rest
\* element counting by its argument: the first element whose labelling differs
\* from the first element's raises MixedLabeledAndUnlabeledElements, and a
\* uniformly labeled tuple raises no such diagnostic; `[a: number, b: string]`
\* parses with no diagnostic
C9_LabelsAreUniform ==
    \A shapes \in TupleShapeSeqs :
        TupleParsed(shapes) =>
            /\ Mislabeled(shapes) # {} =>
                  Reported("MixedLabeledAndUnlabeledElements",
                           ArgumentStart(shapes, First(Mislabeled(shapes))))
            /\ Mislabeled(shapes) = {} =>
                  \A i \in DOMAIN shapes :
                      ~Reported("MixedLabeledAndUnlabeledElements",
                                ArgumentStart(shapes, i))
            /\ shapes = <<"labeled", "labeled">> =>
                  result.ok /\ diagnostics = <<>>

\* the class of the members, abstract or not, has been parsed as a statement
ClassParsed(abstract, members) ==
    FirstStatementDone /\ input = ClassTokens(abstract, members)

\* the index of the first token of the i-th member
MemberStart(abstract, members, i) ==
    Len(ClassTokens(abstract, SubSeq(members, 1, i - 1)))

\* the private name a member declares, "" when it declares none
PrivateNameOf(shape) ==
    CASE shape \in {"fieldA", "methodA"} -> "a"
      [] shape = "fieldB" -> "b"
      [] OTHER -> ""

\* the i-th member declares the private name an earlier member declared
RepeatsPrivateName(members, i) ==
    /\ PrivateNameOf(members[i]) # ""
    /\ \E j \in 1..(i - 1) : PrivateNameOf(members[j]) = PrivateNameOf(members[i])

\* C10: the tuple violations are recoverable: tsParseTupleType reports them,
\* checks the remaining elements and returns the finished TSTupleType, and the
\* parse goes on; so are an abstract method with a body and a repeated private
\* name in a class body
C10_ViolationsAreRecoverable ==
    /\ \A shapes \in TupleShapeSeqs :
          TupleParsed(shapes) =>
              /\ result.ok
              /\ result.node.typeAnnotation.type = "TSTupleType"
              /\ Len(result.node.typeAnnotation.elementTypes) = Len(shapes)
              /\ pos = Len(input) + 1
              /\ \A i \in DOMAIN shapes :
                    RequiredAfterOptional(shapes, i) =>
                        Reported("OptionalTypeBeforeRequired",
                                 ElementStart(shapes, i))
    /\ \A abstract \in BOOLEAN, members \in MemberShapeSeqs :
          ClassParsed(abstract, members) =>
              /\ result.ok
              /\ result.node.type = "ClassDeclaration"
              /\ Len(result.node.body) = Len(members)
              /\ \A i \in DOMAIN members :
                    /\ RepeatsPrivateName(members, i) =>
                          Reported("Identifier has already been declared",
                                   MemberStart(abstract, members, i))
                    /\ members[i] = "abstractMethod" =>
                          \E at \in 1..Len(input) :
                              Reported("AbstractMethodHasImplementation", at)

-----------------------------------------------------------------------------
(* Modifiers (SpecMod) *)

ModifiersParsed == steps = 1 /\ op = "tsParseModifiers"

\* the modifier words of the input, before the follower and the colon
InputWords == [i \in 1..(Len(input) - 2) |-> input[i].value]

ModifierList(caller) ==
    ModifierArguments(caller).allowedModifiers
        \cup ModifierArguments(caller).disallowedModifiers

\* tsParseModifier takes the i-th word when the parser stands on it
AcceptedAt(i) ==
    tsParseModifier([StartParser EXCEPT !.pos = i],
                    ModifierList(result.caller), FALSE).ans # "undefined"

AllAccepted == \A i \in 1..Len(InputWords) : AcceptedAt(i)

\* the order the code enforces, and the order as documented
EnforcedRank ==
    [w \in {"public", "private", "static", "override", "readonly"} |->
        CASE w \in {"public", "private"} -> 1
          [] w = "static" -> 2
          [] w = "override" -> 3
          [] w = "readonly" -> 4]

DocumentedRank ==
    [w \in {"public", "private", "static", "override", "readonly"} |->
        CASE w \in {"public", "private"} -> 1
          [] w = "override" -> 2
          [] w = "static" -> 3
          [] w = "readonly" -> 4]

\* the run holds only modifiers the order speaks of, none twice and at most
\* one accessibility modifier
OrderedKinds(words) ==
    /\ \A i \in 1..Len(words) : words[i] \in DOMAIN EnforcedRank \cup {"in", "out"}
    /\ \A i, j \in 1..Len(words) :
          i # j => /\ words[i] # words[j]
                   /\ {words[i], words[j]} # {"public", "private"}

\* `late` is recorded and `early`, which ranks before it, comes after
ComesLate(rank, late, early) ==
    \/ late \in DOMAIN rank /\ early \in DOMAIN rank /\ rank[early] < rank[late]
    \/ late = "out" /\ early = "in"

Least(S) == IF S = {} THEN 0 ELSE CHOOSE i \in S : \A j \in S : i <= j

FirstOutOfOrder(rank, words) ==
    Least({i \in 1..Len(words) :
              \E j \in 1..(i - 1) : ComesLate(rank, words[j], words[i])})

FirstDisallowed(caller, words) ==
    Least({i \in 1..Len(words) :
              words[i] \in ModifierArguments(caller).disallowedModifiers})

\* the modifier set that holds exactly the words
ModifierSetOf(words) ==
    [accessibility |->
        IF \E i \in 1..Len(words) : tsIsAccessModifier(words[i])
        THEN words[CHOOSE i \in 1..Len(words) : tsIsAccessModifier(words[i])]
        ELSE "undefined",
     set |-> {words[i] : i \in 1..Len(words)} \ {"public", "private"}]

OrderEnforced(rank) ==
    (ModifiersParsed /\ OrderedKinds(InputWords) /\ AllAccepted) =>
        LET k == FirstOutOfOrder(rank, InputWords)
            d == FirstDisallowed(result.caller, InputWords)
        IN /\ (k # 0 /\ (d = 0 \/ k <= d)) =>
                  ~result.ok /\ result.err.msg = "InvalidModifiersOrder"
           /\ (k = 0 /\ d = 0) =>
                  result.ok /\ result.node = ModifierSetOf(InputWords)

DocumentedFollower(tok) ==
    /\ ~tok.nl
    /\ tok.type \in {"bracketL", "braceL", "star", "ellipsis", "privateId",
                     "name", "string", "num"}
                    \cup HostKeywordTypes \cup tsTokenType

\* every word of the run is followed by such a token
RunIsModifiers ==
    \A i \in 1..Len(InputWords) : DocumentedFollower(input[i + 1])

\* no word of the run comes after one it has to precede
InOrder(words) ==
    \A i \in 1..Len(words) : \A j \in 1..(i - 1) :
        /\ ~ComesLate(EnforcedRank, words[j], words[i])
        /\ ~(words[j] = "override" /\ words[i] = "abstract")

Excludes(a, b) ==
    {a, b} \in {{"static", "abstract"}, {"declare", "override"}}

\* what the i-th word breaks, given the words before it
ExclusivityError(words, i) ==
    CASE tsIsAccessModifier(words[i])
           /\ (\E j \in 1..(i - 1) : tsIsAccessModifier(words[j])) ->
            "DuplicateAccessibilityModifier"
      [] ~tsIsAccessModifier(words[i])
           /\ (\E j \in 1..(i - 1) : words[j] = words[i]) ->
            "DuplicateModifier"
      [] ~tsIsAccessModifier(words[i])
           /\ (\A j \in 1..(i - 1) : words[j] # words[i])
           /\ (\E j \in 1..(i - 1) : Excludes(words[j], words[i])) ->
            "IncompatibleModifiers"
      [] OTHER -> "none"

FirstExclusivityError(words) ==
    Least({i \in 1..Len(words) : ExclusivityError(words, i) # "none"})

\* the words tsParseModifiers consumed
ConsumedWords == SubSeq(InputWords, 1, pos - 1)

ConsistentSet(words) ==
    /\ \A i, j \in 1..Len(words) :
          i # j => /\ words[i] # words[j]
                   /\ ~(tsIsAccessModifier(words[i]) /\ tsIsAccessModifier(words[j]))
                   /\ ~Excludes(words[i], words[j])

\* C12: a run of modifiers that tsParseModifiers takes without an error
\* holds at most one accessibility modifier, no modifier twice, not static
\* with abstract and not declare with override; in a run of modifiers (in
\* order, each followed by a token that can follow a modifier) the first
\* second accessibility modifier raises DuplicateAccessibilityModifier, the
\* first other repeat raises DuplicateModifier, and static with abstract or
\* declare with override raises IncompatibleModifiers, whichever comes first
C12_ModifierSetConsistent ==
    (ModifiersParsed /\ result.caller = "allowAll") =>
        /\ result.ok =>
              /\ ConsistentSet(ConsumedWords)
              /\ result.node = ModifierSetOf(ConsumedWords)
        /\ (RunIsModifiers /\ InOrder(InputWords)) =>
              LET k == FirstExclusivityError(InputWords)
              IN IF k = 0
                 THEN result.ok /\ result.node = ModifierSetOf(InputWords)
                 ELSE ~result.ok
                      /\ result.err.msg = ExclusivityError(InputWords, k)

\* the part of C12 about the runs tsParseModifier takes word by word
AcceptedRunsAreConsistent ==
    (ModifiersParsed /\ result.caller = "allowAll") =>
        /\ result.ok =>
              /\ ConsistentSet(ConsumedWords)
              /\ result.node = ModifierSetOf(ConsumedWords)
        /\ (AllAccepted /\ InOrder(InputWords)) =>
              LET k == FirstExclusivityError(InputWords)
              IN IF k = 0
                 THEN result.ok /\ result.node = ModifierSetOf(InputWords)
                 ELSE ~result.ok
                      /\ result.err.msg = ExclusivityError(InputWords, k)

\* C13: an error of tsParseModifiers is raised at the start of the modifier
\* that breaks the rule, the last token the loop consumed, and not at the
\* token after it
C13_ErrorAtModifier ==
    (ModifiersParsed /\ ~result.ok) =>
        /\ result.err.at = pos - 1
        /\ input[result.err.at].value \in ModifierList(result.caller)

ModifierTried == steps = 1 /\ op = "tsParseModifier"

\* C14: tsParseModifier takes the current word exactly when it is in the
\* list and the next token, on the same line, is `[`, `{`, `*`, `...`, a
\* private name or the start of a literal property name; it then consumes
\* the word; otherwise it consumes nothing and leaves the parser as it was
C14_ModifierNeedsFollower ==
    ModifierTried =>
        IF /\ input[1].value \in ModifierList(result.caller)
           /\ (tokenIsIdentifier(input[1].type) \/ input[1].type = "_in")
           /\ DocumentedFollower(input[2])
        THEN result.ans = input[1].value /\ pos = 2
        ELSE result.ans = "undefined" /\ Parser = StartParser

-----------------------------------------------------------------------------
(* The tokenizer (SpecLex) *)

\* the character the token just read starts with
FirstChar == CharAt(lexer, lexer.start)

\* the tokenizer standing at the start of the token just read
AtTokenStart == [Tokenizer EXCEPT !.pos = lexer.start]

\* C15: while inType is true every `<` and every `>` read is a relational
\* token of length 1, whatever follows it; while inType is false the token
\* is the one the host's getTokenFromCode reads there
C15_AngleBracketsInType ==
    (op = "next" /\ pc = "scanned" /\ FirstChar \in {"<", ">", "="}) =>
        /\ (inType /\ FirstChar \in {"<", ">"}) =>
              /\ lexer.type = "relational"
              /\ lexer.end = lexer.start + 1
              /\ lexer.pos = lexer.end
        /\ ~inType =>
              LET host == superGetTokenFromCode(AtTokenStart, FirstChar)
              IN /\ lexer.type = host.type
                 /\ lexer.value = host.value
                 /\ lexer.end = host.end

\* `>>=` read inside a type: the first token is `>` alone
C15_Witness ==
    /\ op = "next" /\ pc = "scanned" /\ inType
    /\ lexer.text = <<">", ">", "=">>
    /\ lexer.start = 0 /\ lexer.end = 1 /\ lexer.type = "relational"

\* the fields lookahead() has to leave alone
PeekKeeps(f) == lexer'[f] = lexer[f]

\* C16: lookahead() returns the type, value, start and end of the next
\* token and leaves pos, type, value, start, end, startLoc, endLoc,
\* lastTokEndLoc, curLine, lineStart and the context stack as they were; no
\* comment is reported and updateContext does not run during the peek
C16_LookaheadLeavesNoTrace ==
    [][(op' = "lookahead" /\ pc' = "scanned") =>
          /\ \A f \in {"pos", "type", "value", "start", "end", "startLoc",
                       "endLoc", "lastTokEndLoc", "curLine", "lineStart",
                       "context", "arrays"} : PeekKeeps(f)
          /\ PeekKeeps("comments") /\ PeekKeeps("contextUpdates")
          /\ \A f \in {"type", "value", "start", "end"} :
                result'.state[f] = nextOfTokenizer(Tokenizer)[f]]_vars

\* the same without endLoc
LookaheadLeavesEndLocOnly ==
    [][(op' = "lookahead" /\ pc' = "scanned") =>
          /\ \A f \in {"pos", "type", "value", "start", "end", "startLoc",
                       "lastTokEndLoc", "curLine", "lineStart",
                       "context", "arrays"} : PeekKeeps(f)
          /\ PeekKeeps("comments") /\ PeekKeeps("contextUpdates")
          /\ \A f \in {"type", "value", "start", "end"} :
                result'.state[f] = nextOfTokenizer(Tokenizer)[f]]_vars

-----------------------------------------------------------------------------
(* Delimited lists (SpecList) *)

ListParsed == steps = 1 /\ op = "tsParseDelimitedList"

\* the tokens before the closing token
ListItems == SubSeq(input, 1, Len(input) - 1)

ClosingType(kind) ==
    CASE kind = "TupleElementTypes" -> "bracketR"
      [] kind = "EnumMembers" -> "braceR"
      [] kind = "TypeParametersOrArguments" -> "relational"

IsComma(tok) == tok.type = "comma"

\* element, comma, element, ..., with at most one comma after the last
\* element; the empty run is one
WellSeparated(items) ==
    /\ \A i \in 1..Len(items) : IsComma(items[i]) <=> i % 2 = 0

\* two elements with no comma between them: the index of the second
MissingCommaAt(items) ==
    Least({i \in 2..Len(items) :
              /\ ~IsComma(items[i]) /\ ~IsComma(items[i - 1])
              /\ WellSeparated(SubSeq(items, 1, i - 1))})

\* the names of the elements, in the order of the text
RECURSIVE NamesIn(_)
NamesIn(items) ==
    IF items = <<>> THEN <<>>
    ELSE IF IsComma(Head(items)) THEN NamesIn(Tail(items))
    ELSE <<Head(items).value>> \o NamesIn(Tail(items))

ElementName(node) ==
    CASE node.type = "TSTypeReference" -> node.typeName.name
      [] node.type = "TSEnumMember" -> node.id
      [] node.type = "TSTypeParameter" -> node.name

\* C17: tsParseDelimitedList returns the elements in source order, wants a
\* comma between two elements (a missing comma before a token that does not
\* close the list is an error), takes the empty list and one trailing
\* comma, and leaves in refTrailingCommaPos the start of the trailing comma,
\* or -1 when the list does not end with one
C17_DelimitedList ==
    ListParsed =>
        /\ (input[Len(input)].type = ClosingType(result.kind)
              /\ WellSeparated(ListItems)) =>
              /\ result.ok
              /\ pos = Len(input)
              /\ [i \in 1..Len(result.node.elts) |->
                     ElementName(result.node.elts[i])] = NamesIn(ListItems)
              /\ result.node.trailingCommaPos =
                     IF ListItems # <<>> /\ IsComma(ListItems[Len(ListItems)])
                     THEN Len(ListItems) ELSE -1
        /\ ~WellSeparated(ListItems) => ~result.ok
        /\ MissingCommaAt(ListItems) # 0 =>
              /\ ~result.ok
              /\ result.err = [msg |-> "Unexpected token",
                               at |-> MissingCommaAt(ListItems)]

\* `a, b,` closed by `}` as enum members: two elements, trailing comma at 4
C17_Witness ==
    /\ ListParsed /\ result.kind = "EnumMembers" /\ result.ok
    /\ Len(input) = 5 /\ ListItems[4].type = "comma" /\ input[5].type = "braceR"
    /\ Len(result.node.elts) = 2
    /\ result.node.trailingCommaPos = 4


-----------------------------------------------------------------------------
(* Speculation (SpecTry) *)

SpeculationTried == op = "tsTryParse"

FirstAttempt == SpeculationTried /\ steps = 1

CallOf(f) == CHOOSE call \in SpeculativeCalls : call.f = f

\* what f itself does on the text, called without tsTryParse around it
Direct == Invoke(result.f, <<AtCallSite(StartParser, CallOf(result.f))>>)

DirectRaises == ~ReturnsBoolean(result.f) /\ ~Direct.ok

\* f returns a value other than undefined and false
DirectMatches ==
    IF ReturnsBoolean(result.f) THEN Direct.ans
    ELSE Direct.ok /\ Direct.node # NoNode

\* the state f leaves, back outside tsInType
DirectState == [Direct.ps EXCEPT !.inType = StartParser.inType]

Restored == getCurLookaheadState(Parser) = getCurLookaheadState(StartParser)

\* C18: a parse error raised by f inside tsTryParse is swallowed: the call
\* reports "no match", the state is the one before the call and no
\* diagnostic surfaces; a parse error of a committed parse ends the parse
C18_SpeculativeErrorsSwallowed ==
    /\ (FirstAttempt /\ DirectRaises) =>
           /\ result.ok
           /\ result.node = NoNode
           /\ Restored
           /\ diagnostics = <<>>
    /\ (op = "tsParseTypeAnnotation" /\ ~result.ok) =>
           /\ pc = "failed"
           /\ ~ENABLED NextTry

\* supporting: the second half of C18 alone
CommittedErrorsEndTheParse ==
    (op = "tsParseTypeAnnotation" /\ ~result.ok) =>
        /\ pc = "failed"
        /\ ~ENABLED NextTry

RestoredAfterReading ==
    /\ FirstAttempt
    /\ pc = "retry"
    /\ Direct.ps.pos > 1
    /\ pos = 1


-----------------------------------------------------------------------------
(* Nested speculation (SpecNest) *)

AllFunctions(wraps) == \A i \in 1..Len(wraps) : wraps[i] = "function"

\* the inner tsTryParse finds `?` after its constraint
InnerSeesQuestion(shape) ==
    \/ shape.innerCond
    \/ shape.wraps # <<>> /\ AllFunctions(shape.wraps) /\ shape.outerCond

\* the inner tsTryParse keeps its constraint: it runs in the disallow
\* context of the outer constraint, or no `?` follows
InnerCommits(shape) == shape.wraps = <<>> \/ ~InnerSeesQuestion(shape)

\* the outer tsTryParse finds `?` after its constraint
OuterSeesQuestion(shape) ==
    IF shape.wraps = <<>> THEN shape.innerCond \/ shape.outerCond
    ELSE IF AllFunctions(shape.wraps) THEN shape.innerCond /\ shape.outerCond
    ELSE shape.outerCond

\* the node of the inner `infer`, or of the conditional type it is the
\* check type of, inside the outer constraint
RECURSIVE InnerNode(_, _)
InnerNode(node, wraps) ==
    IF wraps = <<>> THEN node
    ELSE CASE Head(wraps) = "tuple" -> InnerNode(node.elementTypes[1], Tail(wraps))
           [] Head(wraps) = "paren" -> InnerNode(node.typeAnnotation, Tail(wraps))
           [] OTHER -> InnerNode(node.typeAnnotation.typeAnnotation, Tail(wraps))

\* the token index of the inner `infer` when the outer `extends` is at `at`
InnerStart(shape, at) == at + 1 + Len(NestOpens(shape.wraps))

\* the inner speculation, seen in the node it left: a kept constraint, or no
\* constraint and a conditional type read again from the inner `extends`
InnerSettled(shape, node, at) ==
    IF InnerCommits(shape)
    THEN /\ node.type = "TSInferType"
         /\ node.start = InnerStart(shape, at)
         /\ node.typeParameter.constraint # NoNode
         /\ node.typeParameter.constraint.start = InnerStart(shape, at) + 3
    ELSE /\ node.type = "TSConditionalType"
         /\ node.checkType.type = "TSInferType"
         /\ node.checkType.start = InnerStart(shape, at)
         /\ node.checkType.typeParameter.constraint = NoNode
         /\ node.extendsType.start = InnerStart(shape, at) + 3

\* the token index after the outer constraint
AfterConstraint(shape, at) ==
    at + Len(NestTokens(shape))
    - (IF OuterSeesQuestion(shape) /\ shape.outerCond THEN 4 ELSE 0)
    - (IF OuterSeesQuestion(shape) /\ shape.wraps = <<>> /\ shape.innerCond
       THEN 4 ELSE 0)

OuterTried == FirstAttempt /\ result.f = "tsParseConstraintForInferType"

InnerGaveUpOuterCommitted ==
    /\ OuterTried
    /\ input = NestTokens([wraps |-> <<"function">>,
                           innerCond |-> TRUE, outerCond |-> FALSE])
    /\ pc = "parsed"


-----------------------------------------------------------------------------
(* Scoped flags (SpecScope) *)

ScopedHelpers ==
    {"tsInType", "tsInAmbientContext", "tsInDisallowConditionalTypesContext",
     "tsInAllowConditionalTypesContext"}

ScopedCallDone == op \in ScopedHelpers

\* the callback ran with the helper's flag set: tsParseType did not fail its
\* assertion under tsInType, every statement parsed under tsInAmbientContext
\* is logged as ambient, tsParseType gave no conditional type under
\* tsInDisallowConditionalTypesContext and gave one, where `extends` follows
\* the first type, under tsInAllowConditionalTypesContext
FlagSetDuringCallback ==
    CASE op = "tsInType" -> result.err.msg # "Assert fail"
      [] op = "tsInAmbientContext" ->
            \A i \in 1..Len(stmtLog) : stmtLog[i].ambient
      [] op = "tsInDisallowConditionalTypesContext" ->
            result.ok => result.node.type # "TSConditionalType"
      [] op = "tsInAllowConditionalTypesContext" ->
            (/\ result.cb = "tsParseType"
             /\ result.before.inType
             /\ input \in CondInputs
             /\ Len(input) > 1) =>
                result.ok /\ result.node.type = "TSConditionalType"
      [] OTHER -> TRUE

\* C22: each scoped helper runs its callback with its flag set and, when
\* the callback returns and when it raises, leaves the three flags as they
\* were before the call, whatever helpers the callback nested
C22_ScopedFlagsRestored ==
    ScopedCallDone =>
        /\ Flags(Parser) = result.before
        /\ FlagSetDuringCallback

\* a callback that raised after its first token, inside the allow context of
\* tsParseTypeOperatorOrHigher, called with the disallow flag set
C22_Witness ==
    /\ op = "tsInType"
    /\ ~result.ok
    /\ result.before.inDisallowConditionalTypesContext
    /\ inDisallowConditionalTypesContext
    /\ pos > 1

\* supporting: a callback that raised under tsInAmbientContext, called
\* outside an ambient context
AmbientCallbackRaised ==
    /\ op = "tsInAmbientContext"
    /\ ~result.ok
    /\ ~result.before.isAmbientContext
    /\ pos > 1


\* C29: isLookahead is false whenever lookahead() is not executing: before
\* the call and after it exits, when it returned and when the tokenizer
\* raised during the peek
C29_IsLookaheadOnlyDuringPeek == lexer.isLookahead = FALSE

\* supporting: the flag is false after every peek that returned, and the
\* peeked token was read with the flag set (no comment was delivered)
IsLookaheadClearedOnReturn ==
    [][op' = "lookahead" /\ pc' # "failed" =>
          /\ lexer'.isLookahead = FALSE
          /\ lexer'.comments = lexer.comments]_vars

\* supporting: a peek that raised on a comment left open
PeekRaised ==
    /\ op = "lookahead"
    /\ pc = "failed"
    /\ lexer.err.msg = "Unterminated comment"
    /\ lexer.isLookahead

-----------------------------------------------------------------------------
(* Entry into types (SpecEntry) *)

\* C24: the assertion at the start of tsParseType never fails: on every
\* call path from a statement or a type annotation, inType is true at the
\* moment tsParseType is called
C24_TypeContextAsserted ==
    pc \in {"parsed", "failed"} => result.err.msg # "Assert fail"

\* a type argument list was parsed: its elements are read by tsParseType
C24_Witness ==
    /\ op = "tsParseTypeAnnotation"
    /\ result.ok
    /\ result.node.typeAnnotation.type = "TSTypeReference"
    /\ result.node.typeAnnotation.typeParameters # NoNode
    /\ ~inType

\* supporting: a type alias parsed at statement level
TypeAliasParsed ==
    /\ op = "parseStatement"
    /\ result.ok
    /\ result.node.type = "TSTypeAliasDeclaration"
    /\ ~inType

-----------------------------------------------------------------------------
(* The `extends` operand of a conditional type (SpecOperand) *)

\* the tokens tsParseTypeAnnotation leaves unread: a second `? C : D` after
\* a conditional type whose operand is the bare `infer`
LeftUnread(shape) ==
    IF shape.wraps = <<>> /\ shape.innerCond /\ shape.outerCond THEN 4 ELSE 0

\* C25: the `extends` operand of a conditional type is parsed with
\* inDisallowConditionalTypesContext true: the operand is no conditional
\* type, an `infer` at that level keeps its constraint though `?` follows,
\* and the tsParseType of the constraint stops before a following `extends`;
\* inside brackets, parentheses and signatures of the operand, and in the
\* branches, the flag is false again, and after the parse it has the value
\* it had before; after a line break no `extends` is read
C25_ExtendsOperandDisallowsConditional ==
    /\ inDisallowConditionalTypesContext = FALSE
    /\ \A shape \in NestShapes :
          /\ (op = "tsParseTypeAnnotation"
                /\ input = ExtendsOperandSentence(shape)) =>
              /\ result.ok = OuterSeesQuestion(shape)
              /\ result.ok =>
                  LET type == result.node.typeAnnotation
                  IN /\ type.type = "TSConditionalType"
                     /\ type.extendsType.type # "TSConditionalType"
                     /\ type.extendsType.start = 3
                     /\ InnerSettled(shape,
                            InnerNode(type.extendsType, shape.wraps), 2)
                     /\ pos = Len(input) + 1 - LeftUnread(shape)
          /\ (op = "tsParseTypeAnnotation"
                /\ input = BreakBefore(ExtendsOperandSentence(shape), 2)) =>
              /\ result.ok
              /\ result.node.typeAnnotation.type = "TSTypeReference"
              /\ pos = 2
    /\ (op = "tsParseTypeAnnotation" /\ input = DoubleExtendsSentence) =>
          /\ ~result.ok
          /\ result.err = [msg |-> "Unexpected token", at |-> 7]
    /\ \A tree \in CondTrees :
          (op = "tsParseTypeAnnotation" /\ input = CondTokens(tree)
             /\ tree.k = "cond") =>
              /\ result.ok
              /\ result.node.typeAnnotation.extendsType.type = "TSTypeReference"
              /\ result.node.typeAnnotation.trueType.type =
                     (IF tree.t.k = "cond" THEN "TSConditionalType"
                      ELSE "TSTypeReference")
              /\ result.node.typeAnnotation.falseType.type =
                     (IF tree.f.k = "cond" THEN "TSConditionalType"
                      ELSE "TSTypeReference")

\* an `infer` in the operand kept its constraint before `?`, and one inside
\* a tuple of the operand did not
C25_Witness ==
    /\ op = "tsParseTypeAnnotation"
    /\ result.ok
    /\ \/ /\ input = ExtendsOperandSentence([wraps |-> <<>>, innerCond |-> TRUE,
                                             outerCond |-> FALSE])
          /\ result.node.typeAnnotation.extendsType.typeParameter.constraint
                 # NoNode
       \/ /\ input = ExtendsOperandSentence([wraps |-> <<"tuple">>,
                                             innerCond |-> TRUE,
                                             outerCond |-> TRUE])
          /\ result.node.typeAnnotation.extendsType.elementTypes[1].type
                 = "TSConditionalType"

\* supporting: the constraint of the `infer` stopped before a second `extends`
ConstraintStoppedAtExtends ==
    /\ op = "tsParseTypeAnnotation"
    /\ input = DoubleExtendsSentence
    /\ pos = 7

-----------------------------------------------------------------------------
(* eatContextual (SpecEat) *)

\* the token eatContextual was called at is the word `name`
WasContextual == TokAt(Parser, result.at).value = result.name

Consumed == pos = result.at + 1

\* C26: eatContextual(name) returns a boolean on every call path: true
\* exactly when the current token is the contextual keyword `name` and it
\* was consumed, false when nothing was consumed, for names of the
\* vocabulary, for names outside it and for callers that pass a token type
C26_EatContextualReturnsBoolean ==
    op = "eatContextual" =>
        /\ result.ans \in {"true", "false"}
        /\ result.ans = "true" <=> WasContextual /\ Consumed
        /\ result.ans = "false" <=> pos = result.at

\* supporting: the claim holds for strings of the soft-keyword vocabulary
EatContextualOfVocabulary ==
    (op = "eatContextual" /\ ~result.asTokenType
       /\ result.name \in tsTokenType) =>
        /\ result.ans \in {"true", "false"}
        /\ result.ans = "true" <=> WasContextual /\ Consumed
        /\ result.ans = "false" <=> pos = result.at

\* supporting: a token type is never eaten, and a name outside the
\* vocabulary is eaten by the host, both without an answer
EatContextualDropsAnswer ==
    (op = "eatContextual"
       /\ (result.asTokenType \/ result.name \notin tsTokenType)) =>
        /\ result.ans = "undefined"
        /\ result.asTokenType => pos = result.at
        /\ ~result.asTokenType => (Consumed <=> WasContextual)

\* supporting: the host ate the word and no answer came back
EatenWithoutAnswer ==
    op = "eatContextual" /\ Consumed /\ result.ans = "undefined"

-----------------------------------------------------------------------------
(* Names in the raw text (SpecUnparsed) *)

\* the characters of `name` stand in the text from offset nameStart on
StandsAt(text, nameStart, name) ==
    /\ nameStart >= 0
    /\ nameStart + Len(name) <= Len(text)
    /\ \A k \in 1..Len(name) : text[nameStart + k] = name[k]

\* the end of the text, or a character that continues no identifier and is
\* no high surrogate, at offset `at`
BoundaryAt(text, at) ==
    \/ at >= Len(text)
    \/ text[at + 1] \in {" "}

\* C27: isUnparsedContextual(nameStart, name) is true exactly when the text
\* from nameStart on is `name` and the character after it is neither an
\* identifier-continuation character nor a high surrogate, the end of the
\* input counting as a boundary; it changes no tokenizer state
C27_UnparsedContextual ==
    [][op' = "isUnparsedContextual" =>
          /\ lexer' = lexer
          /\ pos' = pos
          /\ result'.ans <=>
                 /\ StandsAt(lexer.text, result'.nameStart, result'.name)
                 /\ BoundaryAt(lexer.text,
                               result'.nameStart + Len(result'.name))]_vars

\* the name stands in the text and a high surrogate follows it: no match
C27_Witness ==
    /\ op = "isUnparsedContextual"
    /\ ~result.ans
    /\ StandsAt(lexer.text, result.nameStart, result.name)
    /\ CharAt(lexer, result.nameStart + Len(result.name)) = HighSurrogate

\* supporting: a match at the end of the text, and none before a following
\* identifier character
MatchedAtEndOfText ==
    /\ op = "isUnparsedContextual"
    /\ result.ans
    /\ result.name = <<"i", "n">>
    /\ result.nameStart + 2 = Len(lexer.text)

NotMatchedInsideWord ==
    /\ op = "isUnparsedContextual"
    /\ ~result.ans
    /\ lexer.text = <<"i", "n", "n">>
    /\ result.name = <<"i", "n">>
    /\ result.nameStart = 0

-----------------------------------------------------------------------------
(* Declarations that are none (SpecDecl) *)

\* tsParseDeclaration or tsTryParseDeclare returned undefined
NoDeclaration ==
    /\ op \in {"tsParseDeclaration", "tsTryParseDeclare"}
    /\ result.ok
    /\ result.node = NoNode

\* C30: whenever tsParseDeclaration or tsTryParseDeclare yields no
\* declaration, no token has been consumed: the position is the one before
\* the call, for next = false and for next = true
C30_NoDeclarationConsumesNothing == NoDeclaration => pos = result.before

\* supporting: what is consumed after abstract, module, namespace, type and
\* declare is a `;` the line-terminator test ate (next false), or the word
\* itself when no line break follows it (next true)
NoDeclarationConsumesAtMostOne ==
    NoDeclaration =>
        IF result.next
        THEN pos = result.before
                   + (IF /\ TokAt(Parser, result.before).value \in DeclarationWords
                         /\ ~TokAt(Parser, result.before + 1).nl
                      THEN 1 ELSE 0)
        ELSE pos = result.before
                   + (IF /\ TokAt(Parser, result.before).type = "semi"
                         /\ \/ op = "tsTryParseDeclare"
                            \/ TokAt(Parser, result.before - 1).value
                                   \in DeclarationWords
                      THEN 1 ELSE 0)

\* supporting: `type`, then a line break: nothing is consumed
NothingConsumed ==
    /\ NoDeclaration
    /\ input[1].type = "type"
    /\ ~result.next
    /\ pos = result.before
    /\ pos <= Len(input)

-----------------------------------------------------------------------------
(* The context stack (SpecCtx) *)

\* C23: tsInNoContext runs its callback with the context stack reduced to
\* its outermost frame, and when the callback returns and when it raises the
\* context stack is again the one before the call, frame by frame
C23_NoContextScoped ==
    [][op' = "tsInNoContext" =>
          /\ result'.entered = <<ContextStack(lexer)[1]>>
          /\ lexer'.context = lexer.context
          /\ ContextStack(lexer)' = ContextStack(lexer)]_vars

\* the callback pushed a frame onto its own stack, under a stack of two
\* frames, and raised
C23_Witness ==
    /\ op = "tsInNoContext"
    /\ ~result.ok
    /\ Len(result.left) > Len(result.entered)
    /\ Len(ContextStack(lexer)) > 1

\* supporting: the callback returned after it had pushed a frame
NoContextCallbackReturned ==
    /\ op = "tsInNoContext"
    /\ result.ok
    /\ Len(result.left) > Len(result.entered)

\* C28: after tsTryParse(f) reports no match, and after tsLookAhead(f)
\* returns, the context stack has the frames it had before the call
C28_SnapshotHoldsContextByValue ==
    [][(\/ op' = "tsTryParse" /\ result'.ok /\ ~result'.ans
        \/ op' = "tsLookAhead" /\ result'.ok) =>
          ContextStack(lexer)' = ContextStack(lexer)]_vars

\* supporting: the fields of the snapshot other than the context are put back
SnapshotRestoresTheRest ==
    [][(\/ op' = "tsTryParse" /\ result'.ok /\ ~result'.ans
        \/ op' = "tsLookAhead" /\ result'.ok) =>
          \A f \in {"pos", "type", "value", "start", "end", "curLine",
                    "lineStart", "context"} : PeekKeeps(f)]_vars

====
